---------------------------- MODULE Spec2Model ----------------------------
(***************************************************************************)
(* Entity resolution and linkage scripts of the Data-Analytics-Dashboard   *)
(* repository: the name matcher (scripts/utils/name_normalization.py), the *)
(* job-to-customer and job-to-salesperson linking passes and the           *)
(* performance-row linking passes with their transactions.                 *)
(*                                                                         *)
(* Strings are sequences of one-character strings.  Scores and thresholds  *)
(* are exact rationals <<numerator, denominator>> with a positive          *)
(* denominator: 2.0 * M / T of difflib is the correctly rounded quotient   *)
(* of two small integers, so comparing the rationals decides the float     *)
(* comparisons of the code for the lengths used here.                      *)
(***************************************************************************)
EXTENDS Integers, Sequences, FiniteSets, TLC

VARIABLES
    \* ---- name matcher (find_best_match called on one input) ----
    name,            \* the name to match
    candidate_list,  \* sequence of [id, name]
    threshold,       \* rational <<n, d>>
    result,          \* what find_best_match returned
    mpc              \* "input" before the call, "done" after it

mvars == <<name, candidate_list, threshold, result, mpc>>

VARIABLES
    \* ---- the record store (committed rows) ----
    customers,             \* id -> [email, phone]
    booked_opportunities,  \* id -> [email, phone_number, customer_name, customer_id]
    jobs,                  \* id -> [customer_email, customer_phone, customer_name,
                           \*        customer_id, sales_person_name, sales_person_id]
    sales_persons,         \* id -> name
    user_performance,      \* id -> [name, sales_person_id]
    sales_performance      \* id -> [name, sales_person_id]

store == <<customers, booked_opportunities, jobs, sales_persons,
           user_performance, sales_performance>>

VARIABLES
    \* ---- whole passes run one after another ----
    last_pass,   \* the pass that ran last ("none" before the first)
    repeated,    \* the pass that ran last also ran immediately before it
    pre          \* [jobs, user_performance, sales_performance] before the last pass

hvars == <<last_pass, repeated, pre>>

\* the runs of link_orphaned_performance_records.py at work on the store, one
\* connection each, and what is remembered of them
VARIABLES run, audit

pvars == <<run, audit>>

VARIABLES
    \* ---- two names compared with each other ----
    name1, name2,  \* the names
    cmp            \* what the functions of the scripts made of them

cvars == <<name1, name2, cmp>>

VARIABLES
    \* ---- analyze_job_customer_linkage.py: one job row joined with one customer row ----
    job_row, customer_row,
    potential      \* the row of get_potential_matches for the pair, if any

qvars == <<job_row, customer_row, potential>>

VARIABLES
    \* ---- the duplicate classifier at work on one batch of jobs ----
    batch,         \* sequence of job records
    flags,         \* per record of the batch: the columns the classifier adds
    levels_run     \* the detection levels that have run

dvars == <<batch, flags, levels_run>>

\* ---- state of the maintenance scripts ----
VARIABLES
    \* ---- fix_database_issues.py: detect_duplicate_jobs on the jobs table ----
    dup_jobs,
    dup_runs

jvars == <<dup_jobs, dup_runs>>

VARIABLES
    \* ---- export_review_queue.py: the queue export_suspicious_duplicates has written ----
    review_queue

evars == <<review_queue>>

VARIABLES
    \* ---- utils/script_execution.py and the main of a guarded script ----
    script_name,
    script_executions,
    invocation,
    invocations

gvars == <<script_name, script_executions, invocation, invocations>>

VARIABLES
    \* ---- one table, the open transaction of a script and its dry_run flag ----
    persisted,
    transaction,
    script_run,
    runs_ended

tvars == <<persisted, transaction, script_run, runs_ended>>

VARIABLES
    \* ---- entity tables, the rows that reference them, and the deletes made ----
    entities,
    records,
    deletes

nvars == <<entities, records, deletes>>

VARIABLES
    \* ---- what one call of cascade_delete_branches counted and deleted ----
    cascade

bvars == <<cascade>>

VARIABLES
    \* ---- import_sales_performance: the CSV, the tables and the position in the loop ----
    csv,
    tables,
    importer

ivars == <<csv, tables, importer>>

wvars == <<jvars, evars, gvars, tvars, nvars, bvars, ivars>>

ovars == <<mvars, store, hvars, pvars, cvars, qvars, dvars>>

rest_jvars == <<ovars, evars, gvars, tvars, nvars, bvars, ivars>>

rest_evars == <<ovars, jvars, gvars, tvars, nvars, bvars, ivars>>

rest_gvars == <<ovars, jvars, evars, tvars, nvars, bvars, ivars>>

rest_tvars == <<ovars, jvars, evars, gvars, nvars, bvars, ivars>>

rest_nvars == <<ovars, jvars, evars, gvars, tvars, bvars, ivars>>

rest_bvars == <<ovars, jvars, evars, gvars, tvars, nvars, ivars>>

rest_ivars == <<ovars, jvars, evars, gvars, tvars, nvars, bvars>>

\* ---- end of the state of the maintenance scripts ----

xvars == <<cvars, qvars, dvars, wvars>>

-----------------------------------------------------------------------------
(* Values *)

\* Python None / SQL NULL for an id column (ids are positive integers)
NULL == 0

\* Python None / SQL NULL for a text column
NULLSTR == <<"NULL">>

\* find_best_match's "return None"
None == [matched |-> FALSE]

-----------------------------------------------------------------------------
(* Strings: str.strip(), str.lower() *)

IsSpace(c) == c = " "

LowerChar(c) ==
    CASE c = "A" -> "a"
      [] c = "B" -> "b"
      [] c = "C" -> "c"
      [] c = "E" -> "e"
      [] c = "R" -> "r"
      [] OTHER -> c

lower(s) == [i \in DOMAIN s |-> LowerChar(s[i])]

RECURSIVE lstrip(_)
lstrip(s) ==
    IF s # <<>> /\ IsSpace(Head(s)) THEN lstrip(Tail(s)) ELSE s

RECURSIVE rstrip(_)
rstrip(s) ==
    IF s # <<>> /\ IsSpace(s[Len(s)]) THEN rstrip(SubSeq(s, 1, Len(s) - 1)) ELSE s

strip(s) == rstrip(lstrip(s))

\* Python truthiness of an optional string: None and "" are falsy
Falsy(s) == s = NULLSTR \/ s = <<>>

\* SQL TRIM(x) and LOWER(x): NULL in, NULL out
TRIM(s) == IF s = NULLSTR THEN NULLSTR ELSE strip(s)
LOWER(s) == IF s = NULLSTR THEN NULLSTR ELSE lower(s)

IsDigit(c) == c \in {"0", "1", "2", "3", "4", "5", "6", "7", "8", "9"}

\* REGEXP_REPLACE(x, '[^0-9]', '', 'g')
RECURSIVE DigitsOnly(_)
DigitsOnly(s) ==
    IF s = NULLSTR THEN NULLSTR
    ELSE IF s = <<>> THEN <<>>
    ELSE IF IsDigit(Head(s)) THEN <<Head(s)>> \o DigitsOnly(Tail(s))
    ELSE DigitsOnly(Tail(s))

\* SQL "a = b": never true when either side is NULL
SqlEq(a, b) == a # NULLSTR /\ b # NULLSTR /\ a = b

\* ORDER BY name: code point order of the characters used here, NULL last
Alphabet ==
    <<" ", "(", ")", "-", "5", "A", "B", "C", "E", "R", "_",
      "a", "b", "c", "d", "e", "f", "n", "o", "r", "s", "x", "z">>

CharRank(c) == CHOOSE i \in DOMAIN Alphabet : Alphabet[i] = c

RECURSIVE StrLess(_, _)
StrLess(a, b) ==
    IF a = NULLSTR THEN FALSE
    ELSE IF b = NULLSTR THEN TRUE
    ELSE IF b = <<>> THEN FALSE
    ELSE IF a = <<>> THEN TRUE
    ELSE IF Head(a) # Head(b) THEN CharRank(Head(a)) < CharRank(Head(b))
    ELSE StrLess(Tail(a), Tail(b))

-----------------------------------------------------------------------------
(* Rationals *)

RatLt(x, y) == x[1] * y[2] < y[1] * x[2]
RatLe(x, y) == x[1] * y[2] <= y[1] * x[2]
RatEq(x, y) == x[1] * y[2] = y[1] * x[2]

Zero == <<0, 1>>
One == <<1, 1>>

-----------------------------------------------------------------------------
(* difflib.SequenceMatcher(None, a, b).ratio()                             *)

\* length of the common run of a from i and b from j, inside a[..ahi], b[..bhi]
RECURSIVE RunLen(_, _, _, _, _, _)
RunLen(a, i, ahi, b, j, bhi) ==
    IF i <= ahi /\ j <= bhi /\ a[i] = b[j]
    THEN 1 + RunLen(a, i + 1, ahi, b, j + 1, bhi)
    ELSE 0

\* find_longest_match(alo, ahi, bhi, blo): the longest block, of those the one
\* starting earliest in a, of those the one starting earliest in b
find_longest_match(a, alo, ahi, b, blo, bhi) ==
    LET starts == (alo..ahi) \X (blo..bhi)
        k(p) == RunLen(a, p[1], ahi, b, p[2], bhi)
        best == IF starts = {} THEN 0
                ELSE CHOOSE n \in {k(p) : p \in starts} :
                        \A p \in starts : k(p) <= n
    IN  IF best = 0 THEN <<alo, blo, 0>>
        ELSE LET longest == {p \in starts : k(p) = best}
                 i == CHOOSE x \in {p[1] : p \in longest} :
                        \A p \in longest : x <= p[1]
                 j == CHOOSE y \in {p[2] : p \in {q \in longest : q[1] = i}} :
                        \A p \in longest : p[1] = i => y <= p[2]
             IN  <<i, j, best>>

\* get_matching_blocks: the sum of the sizes of the blocks found by splitting
\* recursively at the longest match
RECURSIVE MatchCount(_, _, _, _, _, _)
MatchCount(a, alo, ahi, b, blo, bhi) ==
    IF alo > ahi \/ blo > bhi THEN 0
    ELSE LET m == find_longest_match(a, alo, ahi, b, blo, bhi)
         IN  IF m[3] = 0 THEN 0
             ELSE m[3]
                  + MatchCount(a, alo, m[1] - 1, b, blo, m[2] - 1)
                  + MatchCount(a, m[1] + m[3], ahi, b, m[2] + m[3], bhi)

\* ratio(): 2.0 * matches / (len(a) + len(b)), 1.0 when both are empty
ratio(a, b) ==
    IF Len(a) + Len(b) = 0 THEN One
    ELSE <<2 * MatchCount(a, 1, Len(a), b, 1, Len(b)), Len(a) + Len(b)>>

-----------------------------------------------------------------------------
(* scripts/utils/name_normalization.py *)

\* the names compared as they come, neither stripped nor lower-cased
calculate_name_similarity_as_typed(nm1, nm2) ==
    IF Falsy(nm1) \/ Falsy(nm2) THEN Zero
    ELSE IF nm1 = nm2 THEN One ELSE ratio(nm1, nm2)

calculate_name_similarity(nm1, nm2) ==
    IF Falsy(nm1) \/ Falsy(nm2) THEN Zero
    ELSE LET n1 == lower(strip(nm1))
             n2 == lower(strip(nm2))
         IN  IF n1 = n2 THEN One ELSE ratio(n1, n2)

\* strip() left out
normalize_name_unstripped(nm) == IF Falsy(nm) THEN <<>> ELSE lower(nm)

\* scripts/analyze_name_matching.py: normalize_name
normalize_name(nm) == IF Falsy(nm) THEN <<>> ELSE lower(strip(nm))

HighCut == <<9, 10>>

\* the cut taken at 0.75 instead of 0.9
match_type_of_low_cut(best_score) ==
    IF RatLe(<<3, 4>>, best_score) THEN "high" ELSE "medium"

match_type_of(best_score) ==
    IF RatLe(HighCut, best_score) THEN "high" ELSE "medium"

\* "if best_score > threshold": the boundary rejected
meets_threshold_strict(best_score, th) == RatLt(th, best_score)

\* the test after the loop: "if best_score >= threshold"
meets_threshold(best_score, th) == RatLe(th, best_score)

\* the update test inside the loop: "if score > best_score"
improves(score, best_score) == RatLt(best_score, score)

\* the test left out: equal names are scored like any others
is_exact_never(normalized_name, normalized_candidate) == FALSE

\* "if normalized_name == normalized_candidate"
is_exact(normalized_name, normalized_candidate) ==
    normalized_name = normalized_candidate

\* the loop over candidate_list from position i on, carrying best_score and
\* best_id; an exact match returns from inside the loop
RECURSIVE fbm_loop(_, _, _, _, _, _)
fbm_loop(normalized_name, cands, i, best_score, best_id, th) ==
    IF i > Len(cands)
    THEN IF meets_threshold(best_score, th)
         THEN [matched |-> TRUE, id |-> best_id, score |-> best_score,
               match_type |-> match_type_of(best_score)]
         ELSE None
    ELSE LET candidate_id == cands[i].id
             candidate_name == cands[i].name
         IN  IF Falsy(candidate_name)
             THEN fbm_loop(normalized_name, cands, i + 1, best_score, best_id, th)
             ELSE LET normalized_candidate == lower(strip(candidate_name))
                  IN  IF is_exact(normalized_name, normalized_candidate)
                      THEN [matched |-> TRUE, id |-> candidate_id, score |-> One,
                            match_type |-> "exact"]
                      ELSE LET score == calculate_name_similarity(normalized_name,
                                                                  normalized_candidate)
                           IN  IF improves(score, best_score)
                               THEN fbm_loop(normalized_name, cands, i + 1, score,
                                             candidate_id, th)
                               ELSE fbm_loop(normalized_name, cands, i + 1, best_score,
                                             best_id, th)

find_best_match(nm, cands, th) ==
    IF Falsy(nm) \/ cands = <<>> THEN None
    ELSE fbm_loop(lower(strip(nm)), cands, 1, Zero, NULL, th)

\* the default of the threshold parameter
DefaultThreshold == <<3, 4>>

-----------------------------------------------------------------------------
(* UPDATE ... FROM: a target row with several join rows takes the value of   *)
(* one of them, and which one is not predictable (PostgreSQL, UPDATE, Notes) *)

\* every table the statement can leave: Vals(row) is the set of values the
\* join rows give for the row's customer_id (empty: the row is not updated)
UpdateCustomerIdFrom(J, Vals(_)) ==
    LET picks == { f \in [DOMAIN J -> {NULL} \cup DOMAIN customers] :
                     \A j \in DOMAIN J :
                        IF Vals(J[j]) = {} THEN f[j] = J[j].customer_id
                        ELSE f[j] \in Vals(J[j]) }
    IN  { [j \in DOMAIN J |-> [J[j] EXCEPT !.customer_id = f[j]]] : f \in picks }

-----------------------------------------------------------------------------
(* scripts/fix_database_issues.py: link_jobs_to_customers *)

\* the guard dropped: every job row is a target
customer_unset_dropped(j) == TRUE

\* "WHERE j.customer_id IS NULL"
customer_unset(j) == j.customer_id = NULL

\* Strategy 1: the booked opportunities that join job row j
strategy1_matches(j) ==
    IF ~customer_unset(j) THEN {}
    ELSE { b \in DOMAIN booked_opportunities :
             LET bo == booked_opportunities[b]
             IN  /\ bo.customer_id # NULL
                 /\ \/ /\ j.customer_email # NULLSTR
                       /\ SqlEq(bo.email, TRIM(j.customer_email))
                    \/ /\ j.customer_phone # NULLSTR
                       /\ SqlEq(bo.phone_number, TRIM(j.customer_phone))
                    \/ /\ j.customer_name # NULLSTR
                       /\ SqlEq(bo.customer_name, TRIM(j.customer_name)) }

strategy1_values(j) ==
    { booked_opportunities[b].customer_id : b \in strategy1_matches(j) }

\* Strategy 2: the customers that join job row j by email, by phone
direct_email_matches(j) ==
    { c \in DOMAIN customers :
        /\ j.customer_email # NULLSTR
        /\ SqlEq(customers[c].email, TRIM(LOWER(j.customer_email))) }

direct_phone_matches(j) ==
    { c \in DOMAIN customers :
        /\ j.customer_phone # NULLSTR
        /\ SqlEq(customers[c].phone, DigitsOnly(TRIM(j.customer_phone))) }

\* the two tests stand in one statement, joined by OR
strategy2_values(j) ==
    IF ~customer_unset(j) THEN {}
    ELSE direct_email_matches(j) \cup direct_phone_matches(j)

\* both statements, then conn.commit(): every table the pass can leave
link_jobs_to_customers(J) ==
    UNION { UpdateCustomerIdFrom(J1, strategy2_values) :
              J1 \in UpdateCustomerIdFrom(J, strategy1_values) }

-----------------------------------------------------------------------------
(* scripts/fill/fill_empty_columns.py: fill_job_customer_links *)

fill_email_values(j) ==
    IF ~customer_unset(j) THEN {}
    ELSE { c \in DOMAIN customers :
             /\ j.customer_email # NULLSTR
             /\ SqlEq(customers[c].email, j.customer_email) }

fill_phone_values(j) ==
    IF ~customer_unset(j) THEN {}
    ELSE { c \in DOMAIN customers :
             /\ j.customer_phone # NULLSTR
             /\ SqlEq(customers[c].phone, j.customer_phone) }

\* the email statement, then the phone statement, then conn.commit()
fill_job_customer_links(J) ==
    UNION { UpdateCustomerIdFrom(J1, fill_phone_values) :
              J1 \in UpdateCustomerIdFrom(J, fill_email_values) }

-----------------------------------------------------------------------------
(* ORDER BY name over a table id -> [name, ...] *)

RECURSIVE OrderByName(_, _)
OrderByName(tbl, ids) ==
    IF ids = {} THEN <<>>
    ELSE LET first == CHOOSE x \in ids : \A y \in ids \ {x} :
                         \/ StrLess(tbl[x].name, tbl[y].name)
                         \/ (tbl[x].name = tbl[y].name /\ x < y)
         IN  <<first>> \o OrderByName(tbl, ids \ {first})

-----------------------------------------------------------------------------
(* scripts/timeline/link_orphaned_performance_records.py *)

\* "SELECT id, name, normalized_name FROM sales_persons ORDER BY name", and
\* sales_person_list = [(sp[0], sp[1]) for sp in sales_persons]
get_all_sales_persons ==
    LET ord == OrderByName(sales_persons, DOMAIN sales_persons)
    IN  [i \in DOMAIN ord |-> [id |-> ord[i], name |-> sales_persons[ord[i]].name]]

\* the WHERE clause left out: linked rows are matched again
orphaned_records_all(tbl) == OrderByName(tbl, DOMAIN tbl)

\* "SELECT id, name FROM ... WHERE sales_person_id IS NULL ORDER BY name"
orphaned_records(tbl) ==
    OrderByName(tbl, {r \in DOMAIN tbl : tbl[r].sales_person_id = NULL})

\* the loop left at the first record without a match
next_after_failed(orphans, i) == Len(orphans) + 1

\* "else: failed_count += 1": the loop goes on with the next record
next_after(orphans, i) == i + 1

\* the match of one orphaned record, with the default threshold
match_of(tbl, r, sales_person_list) ==
    find_best_match(tbl[r].name, sales_person_list, DefaultThreshold)

\* the body of "for up_id, up_name in orphaned_records" (not dry_run): the
\* UPDATE ... WHERE id = %s of a matched record
RECURSIVE link_loop(_, _, _, _)
link_loop(tbl, orphans, i, sales_person_list) ==
    IF i > Len(orphans) THEN tbl
    ELSE LET match == match_of(tbl, orphans[i], sales_person_list)
         IN  IF match.matched
             THEN link_loop([tbl EXCEPT ![orphans[i]].sales_person_id = match.id],
                            orphans, i + 1, sales_person_list)
             ELSE link_loop(tbl, orphans, next_after(orphans, i), sales_person_list)

\* link_orphaned_user_performance / link_orphaned_sales_performance with
\* dry_run False, up to and including conn.commit()
link_orphaned(tbl) ==
    link_loop(tbl, orphaned_records(tbl), 1, get_all_sales_persons)

-----------------------------------------------------------------------------
(* scripts/update/update_sales_person_links.py *)

\* re.sub(r'\([^)]*\)', '', name): each "(" up to the next ")" is removed
RECURSIVE remove_parens(_)
remove_parens(s) ==
    IF s = <<>> THEN <<>>
    ELSE LET closes == {k \in 2..Len(s) : s[k] = ")"}
         IN  IF Head(s) = "(" /\ closes # {}
             THEN LET k == CHOOSE x \in closes : \A y \in closes : x <= y
                  IN  remove_parens(SubSeq(s, k + 1, Len(s)))
             ELSE <<Head(s)>> \o remove_parens(Tail(s))

\* every run of spaces becomes one space
RECURSIVE squeeze(_)
squeeze(s) ==
    IF s = <<>> THEN <<>>
    ELSE IF IsSpace(Head(s)) THEN <<" ">> \o squeeze(lstrip(s))
    ELSE <<Head(s)>> \o squeeze(Tail(s))

\* ' '.join(s.split())
collapse_ws(s) == squeeze(strip(s))

normalize_name_for_matching(nm) ==
    IF Falsy(nm) THEN <<>> ELSE collapse_ws(strip(remove_parens(nm)))

\* "sub in s" of two strings
Contains(sub, s) ==
    \E i \in 0..(Len(s) - Len(sub)) : SubSeq(s, i + 1, i + Len(sub)) = sub

\* get_salesperson_name_mapping: the dict filled from "SELECT id, name FROM
\* sales_persons ORDER BY name", as its items in iteration order (a key stands
\* where it was first inserted and holds the id inserted last)
RECURSIVE dict_items(_, _)
dict_items(rows, i) ==
    IF i > Len(rows) THEN <<>>
    ELSE IF \E j \in 1..(i - 1) : rows[j].name = rows[i].name
         THEN dict_items(rows, i + 1)
         ELSE LET same == {j \in DOMAIN rows : rows[j].name = rows[i].name}
                  last == CHOOSE j \in same : \A k \in same : k <= j
              IN  <<[name |-> rows[i].name, id |-> rows[last].id]>>
                  \o dict_items(rows, i + 1)

get_salesperson_name_mapping == dict_items(get_all_sales_persons, 1)

\* the id of the first item satisfying P, or None
FirstItem(items, P(_)) ==
    LET hits == {i \in DOMAIN items : P(items[i])}
    IN  IF hits = {} THEN NULL
        ELSE items[CHOOSE i \in hits : \A k \in hits : i <= k].id

match_name_to_salesperson(nm, salesperson_map) ==
    LET normalized == normalize_name_for_matching(nm)
        name_lower == strip(lower(nm))
        normalized_lower == lower(normalized)
        Exact(it) == it.name = nm
        Normalized(it) == it.name = normalized
        CaseInsensitive(it) == strip(lower(it.name)) = name_lower
        NormalizedCaseInsensitive(it) ==
            lower(normalize_name_for_matching(it.name)) = normalized_lower
        Partial(it) == \/ Contains(normalized_lower, lower(it.name))
                       \/ Contains(lower(it.name), normalized_lower)
    IN  IF Falsy(nm) THEN NULL
        ELSE IF FirstItem(salesperson_map, Exact) # NULL
             THEN FirstItem(salesperson_map, Exact)
        ELSE IF FirstItem(salesperson_map, Normalized) # NULL
             THEN FirstItem(salesperson_map, Normalized)
        ELSE IF FirstItem(salesperson_map, CaseInsensitive) # NULL
             THEN FirstItem(salesperson_map, CaseInsensitive)
        ELSE IF FirstItem(salesperson_map, NormalizedCaseInsensitive) # NULL
             THEN FirstItem(salesperson_map, NormalizedCaseInsensitive)
        ELSE FirstItem(salesperson_map, Partial)

\* "if matched_id and matched_id != current_sales_person_id": the job's link is
\* written whether or not it was set before
relinks(matched_id, current_sales_person_id) ==
    matched_id # NULL /\ matched_id # current_sales_person_id

\* update_jobs_salesperson_links with dry_run False, up to conn.commit()
update_jobs_salesperson_links(J, salesperson_map) ==
    [j \in DOMAIN J |->
        IF J[j].sales_person_name = NULLSTR THEN J[j]
        ELSE LET matched_id ==
                     match_name_to_salesperson(J[j].sales_person_name, salesperson_map)
             IN  IF relinks(matched_id, J[j].sales_person_id)
                 THEN [J[j] EXCEPT !.sales_person_id = matched_id]
                 ELSE J[j]]

-----------------------------------------------------------------------------
(* Inputs of the matcher *)

MaxCands == 2

NamePool ==
    { <<>>, <<" ">>,
      <<"a", "b">>, <<"A", "B", " ">>, <<"a", "c">>, <<"b">>,
      <<"a", "b", "c">>,
      <<"a", "b", "c", "d">>, <<"a", "b", "c", "e">>,
      <<"a", "b", "c", "d", "e">>, <<"a", "b", "c", "d", "e", "f">> }

Thresholds ==
    { <<-1, 4>>, <<0, 1>>, <<1, 2>>, <<3, 4>>, <<9, 10>>, <<10, 11>>, <<1, 1>>, <<5, 4>> }

CandidateLists ==
    UNION { [1..n -> NamePool] : n \in 0..MaxCands }

\* candidate ids are the positions in the list
AsCandidates(names) == [i \in DOMAIN names |-> [id |-> i, name |-> names[i]]]

\* ---- the maintenance scripts at rest ----
DuplicateJobsIdle ==
    /\ dup_jobs = <<>>
    /\ dup_runs = <<>>

ExportIdle ==
    /\ review_queue = [state |-> "none", rows |-> {}]

GuardIdle ==
    /\ script_name = "none"
    /\ script_executions = {}
    /\ invocation = [pc |-> "idle"]
    /\ invocations = <<>>

DryRunIdle ==
    /\ persisted = <<>>
    /\ transaction = <<>>
    /\ script_run = [pc |-> "idle"]
    /\ runs_ended = <<>>

EntitiesIdle ==
    /\ entities = <<>>
    /\ records = {}
    /\ deletes = {}

CascadeIdle ==
    /\ cascade = [state |-> "none"]

ImportIdle ==
    /\ csv = <<>>
    /\ tables = <<>>
    /\ importer = [pc |-> "idle"]

WIdle ==
    /\ DuplicateJobsIdle
    /\ ExportIdle
    /\ GuardIdle
    /\ DryRunIdle
    /\ EntitiesIdle
    /\ CascadeIdle
    /\ ImportIdle

\* ---- end of the maintenance scripts at rest ----

\* no pair of names is being compared
PairIdle ==
    /\ name1 = <<>>
    /\ name2 = <<>>
    /\ cmp = [called |-> FALSE]

\* no job row is joined with a customer row
PotentialIdle ==
    /\ job_row = <<>>
    /\ customer_row = <<>>
    /\ potential = [step |-> "none"]

\* no batch is being classified
ClassifierIdle ==
    /\ batch = <<>>
    /\ flags = <<>>
    /\ levels_run = {}

\* the store and the passes stand still while the matcher is exercised
StoreIdle ==
    /\ customers = <<>>
    /\ booked_opportunities = <<>>
    /\ jobs = <<>>
    /\ sales_persons = <<>>
    /\ user_performance = <<>>
    /\ sales_performance = <<>>
    /\ last_pass = "none"
    /\ repeated = FALSE
    /\ pre = <<>>
    /\ run = <<>>
    /\ audit = <<>>

InitMatch ==
    /\ StoreIdle
    /\ PairIdle /\ PotentialIdle /\ ClassifierIdle /\ WIdle
    /\ name \in NamePool
    /\ candidate_list \in {AsCandidates(ns) : ns \in CandidateLists}
    /\ threshold \in Thresholds
    /\ result = None
    /\ mpc = "input"

CallFindBestMatch ==
    /\ mpc = "input"
    /\ result' = find_best_match(name, candidate_list, threshold)
    /\ mpc' = "done"
    /\ UNCHANGED <<name, candidate_list, threshold, store, hvars, pvars, xvars>>

NextMatch == CallFindBestMatch

vars == <<mvars, store, hvars, pvars, xvars>>

SpecMatch == InitMatch /\ [][NextMatch]_vars

-----------------------------------------------------------------------------
(* The store, and whole passes run one after another (dry_run False) *)

NumJobs == 2
NumPerf == 2
NumSpf == 1

Str_e == <<"e">>
Str_E_ == <<"E", " ">>
Str_5 == <<"5">>
Str_5dash == <<"5", "-">>
Str_n == <<"n">>
Str_bob == <<"b", "o", "b">>
Str_Bob == <<"B", "o", "b">>
Str_Bob_ == <<"B", "o", "b", " ">>
Str_bobs == <<"b", "o", "b", "s">>
Str_bob_x == <<"b", "o", "b", " ", "(", "x", ")">>
Str_rob == <<"r", "o", "b">>
Str_abe == <<"a", "b", "e">>

Customer(e, ph) == [email |-> e, phone |-> ph]

\* one customer known by email, another by phone
CustomersApart == <<Customer(Str_e, NULLSTR), Customer(NULLSTR, Str_5)>>

CustomerTables ==
    { CustomersApart,
      <<Customer(Str_e, Str_5), Customer(Str_e, NULLSTR)>>,
      <<Customer(NULLSTR, Str_5dash)>> }

Booked(e, ph, nm, c) ==
    [email |-> e, phone_number |-> ph, customer_name |-> nm, customer_id |-> c]

BookedTables ==
    { <<>>,
      <<Booked(NULLSTR, NULLSTR, Str_n, 1)>>,
      <<Booked(Str_e, NULLSTR, NULLSTR, NULL), Booked(NULLSTR, Str_5dash, NULLSTR, 1)>> }

\* the customers with the booked opportunities that refer to them
CustomerStores ==
    { <<CustomersApart, b>> : b \in BookedTables }
        \cup { <<c, <<>>>> : c \in CustomerTables }

SalesPerson(nm) == [name |-> nm]

SalesPersonTables ==
    { <<>>, <<SalesPerson(Str_bob)>>, <<SalesPerson(Str_rob), SalesPerson(Str_bob)>> }

Job(e, ph, nm, c, spn, sp) ==
    [customer_email |-> e, customer_phone |-> ph, customer_name |-> nm,
     customer_id |-> c, sales_person_name |-> spn, sales_person_id |-> sp]

\* jobs that arrived without a customer, with their contact fields
JobsToLink ==
    { Job(e, ph, nm, NULL, NULLSTR, NULL) :
        e \in {NULLSTR, Str_e, Str_E_}, ph \in {NULLSTR, Str_5dash},
        nm \in {NULLSTR, Str_n} }

\* jobs that carry a salesperson's name, linked or not
JobsOfSalesPersons(sps) ==
    { Job(NULLSTR, NULLSTR, NULLSTR, NULL, spn, sp) :
        spn \in {NULLSTR, Str_bob, Str_Bob, Str_bob_x},
        sp \in {NULL} \cup DOMAIN sps }

Perf(nm, sp) == [name |-> nm, sales_person_id |-> sp]

PerfRows(names, ids) == { Perf(nm, sp) : nm \in names, sp \in ids }

UserPerformanceNames == { <<>>, Str_Bob_, Str_bobs, Str_abe }
SalesPerformanceNames == { Str_Bob_, Str_abe }

HistoryInit ==
    /\ last_pass = "none"
    /\ repeated = FALSE
    /\ pre = [jobs |-> jobs, user_performance |-> user_performance,
              sales_performance |-> sales_performance]

MatcherIdle ==
    /\ name = <<>>
    /\ candidate_list = <<>>
    /\ threshold = DefaultThreshold
    /\ result = None
    /\ mpc = "idle"

\* jobs to link to customers
InitCustomerFamily ==
    /\ \E cs \in CustomerStores :
          customers = cs[1] /\ booked_opportunities = cs[2]
    /\ jobs \in [1..NumJobs -> JobsToLink]
    /\ sales_persons = <<>>
    /\ user_performance = <<>>
    /\ sales_performance = <<>>

\* jobs to link to salespersons
InitSalesFamily ==
    /\ customers = <<>>
    /\ booked_opportunities = <<>>
    /\ sales_persons \in SalesPersonTables
    /\ jobs \in [1..NumJobs -> JobsOfSalesPersons(sales_persons)]
    /\ user_performance = <<>>
    /\ sales_performance = <<>>

\* performance rows to link to salespersons: user_performance rows unlinked
\* or linked before to the first salesperson, sales_performance rows unlinked
InitPerformanceFamily ==
    /\ customers = <<>>
    /\ booked_opportunities = <<>>
    /\ jobs = <<>>
    /\ sales_persons \in SalesPersonTables
    /\ user_performance \in
          [1..NumPerf -> PerfRows(UserPerformanceNames,
                                  {NULL} \cup (DOMAIN sales_persons \cap {1}))]
    /\ sales_performance \in
          [1..NumSpf -> PerfRows(SalesPerformanceNames, {NULL})]

\* no run of the script is under way
RunsIdle ==
    /\ run = <<>>
    /\ audit = <<>>

Init ==
    /\ MatcherIdle
    /\ InitCustomerFamily \/ InitSalesFamily \/ InitPerformanceFamily
    /\ HistoryInit
    /\ RunsIdle
    /\ PairIdle /\ PotentialIdle /\ ClassifierIdle /\ WIdle

Ran(pass) ==
    /\ last_pass' = pass
    /\ repeated' = (last_pass = pass)
    /\ pre' = [jobs |-> jobs, user_performance |-> user_performance,
               sales_performance |-> sales_performance]

LinkJobsToCustomers ==
    /\ jobs' \in link_jobs_to_customers(jobs)
    /\ Ran("link_jobs_to_customers")
    /\ UNCHANGED <<mvars, xvars, pvars, customers, booked_opportunities, sales_persons,
                   user_performance, sales_performance>>

FillJobCustomerLinks ==
    /\ jobs' \in fill_job_customer_links(jobs)
    /\ Ran("fill_job_customer_links")
    /\ UNCHANGED <<mvars, xvars, pvars, customers, booked_opportunities, sales_persons,
                   user_performance, sales_performance>>

UpdateJobsSalespersonLinks ==
    /\ jobs' = update_jobs_salesperson_links(jobs, get_salesperson_name_mapping)
    /\ Ran("update_jobs_salesperson_links")
    /\ UNCHANGED <<mvars, xvars, pvars, customers, booked_opportunities, sales_persons,
                   user_performance, sales_performance>>

LinkOrphanedUserPerformance ==
    /\ user_performance' = link_orphaned(user_performance)
    /\ Ran("link_orphaned_user_performance")
    /\ UNCHANGED <<mvars, xvars, pvars, customers, booked_opportunities, jobs, sales_persons,
                   sales_performance>>

LinkOrphanedSalesPerformance ==
    /\ sales_performance' = link_orphaned(sales_performance)
    /\ Ran("link_orphaned_sales_performance")
    /\ UNCHANGED <<mvars, xvars, pvars, customers, booked_opportunities, jobs, sales_persons,
                   user_performance>>

Next ==
    \/ LinkJobsToCustomers
    \/ FillJobCustomerLinks
    \/ UpdateJobsSalespersonLinks
    \/ LinkOrphanedUserPerformance
    \/ LinkOrphanedSalesPerformance

Spec == Init /\ [][Next]_vars

-----------------------------------------------------------------------------
(* scripts/timeline/link_orphaned_performance_records.py, statement by       *)
(* statement: NumRuns runs of main() at once, each on its own connection,    *)
(* under PostgreSQL's default isolation level READ COMMITTED                 *)

NumRuns == 2

Runs == 1..NumRuns

\* a run before main() is entered
RunStart ==
    [pc |-> "start", dry_run |-> TRUE, pass |-> "user_performance",
     orphaned_records |-> <<>>, sales_person_list |-> <<>>, i |-> 1, txn |-> {}]

\* the performance rows as imported, none of them linked yet
InitPerf ==
    /\ MatcherIdle
    /\ customers = <<>>
    /\ booked_opportunities = <<>>
    /\ jobs = <<>>
    /\ sales_persons \in SalesPersonTables
    /\ user_performance \in [1..NumPerf -> PerfRows(UserPerformanceNames, {NULL})]
    /\ sales_performance \in [1..NumSpf -> PerfRows(SalesPerformanceNames, {NULL})]
    /\ HistoryInit
    /\ PairIdle /\ PotentialIdle /\ ClassifierIdle /\ WIdle
    /\ run = [r \in Runs |-> RunStart]
    /\ audit = [first |-> <<user_performance, sales_performance>>,
                at_start |-> [r \in Runs |-> <<user_performance, sales_performance>>],
                started |-> {}, overwritten |-> {}]

\* the committed rows of the table a pass works on
TableOf(pass) ==
    IF pass = "user_performance" THEN user_performance ELSE sales_performance

\* another run's open transaction has updated the row: its lock is held until
\* that run commits or rolls back
LockedByOther(r, pass, id) ==
    \E q \in Runs \ {r} : \E w \in run[q].txn : w.pass = pass /\ w.id = id

\* the rows of a table after the writes of a transaction are committed
Committed(tbl, pass, txn) ==
    [id \in DOMAIN tbl |->
        IF \E w \in txn : w.pass = pass /\ w.id = id
        THEN [tbl[id] EXCEPT !.sales_person_id =
                 (CHOOSE w \in txn : w.pass = pass /\ w.id = id).sales_person_id]
        ELSE tbl[id]]

\* the record the loop stands at, and its match
Current(r) == run[r].orphaned_records[run[r].i]

InLoop(r) == run[r].pc = "loop" /\ run[r].i <= Len(run[r].orphaned_records)

CurrentMatch(r) == match_of(TableOf(run[r].pass), Current(r), run[r].sales_person_list)

\* main(): "dry_run = not args.execute", conn = get_db_connection()
Start(r) ==
    /\ run[r].pc = "start"
    /\ \E execute \in BOOLEAN :
          run' = [run EXCEPT ![r] = [RunStart EXCEPT !.pc = "select",
                                                     !.dry_run = ~execute]]
    /\ audit' = [audit EXCEPT !.at_start[r] = <<user_performance, sales_performance>>,
                              !.started = @ \cup {r}]
    /\ UNCHANGED <<mvars, xvars, store, hvars>>

\* the SELECT of the orphaned records and get_all_sales_persons(conn)
SelectOrphaned(r) ==
    /\ run[r].pc = "select"
    /\ run' = [run EXCEPT ![r].pc = "loop",
                          ![r].orphaned_records = orphaned_records(TableOf(run[r].pass)),
                          ![r].sales_person_list = get_all_sales_persons,
                          ![r].i = 1]
    /\ UNCHANGED <<mvars, xvars, store, hvars, audit>>

\* a record with a match, not dry_run: "UPDATE ... SET sales_person_id = %s
\* WHERE id = %s", whatever the row's sales_person_id is by now
UpdateRecord(r) ==
    /\ InLoop(r)
    /\ CurrentMatch(r).matched
    /\ ~run[r].dry_run
    /\ ~LockedByOther(r, run[r].pass, Current(r))
    /\ run' = [run EXCEPT ![r].i = @ + 1,
                          ![r].txn = @ \cup {[pass |-> run[r].pass, id |-> Current(r),
                                              sales_person_id |-> CurrentMatch(r).id]}]
    /\ audit' = IF TableOf(run[r].pass)[Current(r)].sales_person_id = NULL
                THEN audit
                ELSE [audit EXCEPT !.overwritten =
                         @ \cup {[by |-> r, pass |-> run[r].pass, id |-> Current(r)]}]
    /\ UNCHANGED <<mvars, xvars, store, hvars>>

\* a record without a match, or dry_run: nothing is written
NextRecord(r) ==
    /\ InLoop(r)
    /\ ~CurrentMatch(r).matched \/ run[r].dry_run
    /\ run' = [run EXCEPT ![r].i = IF CurrentMatch(r).matched THEN @ + 1
                                   ELSE next_after(run[r].orphaned_records, @)]
    /\ UNCHANGED <<mvars, xvars, store, hvars, audit>>

\* the loop is over: "if not dry_run: conn.commit()", and main() goes on to
\* the next pass or returns 0
FinishPass(r) ==
    /\ run[r].pc = "loop"
    /\ run[r].i > Len(run[r].orphaned_records)
    /\ user_performance' = Committed(user_performance, "user_performance", run[r].txn)
    /\ sales_performance' = Committed(sales_performance, "sales_performance", run[r].txn)
    /\ run' = [run EXCEPT ![r] =
                  IF run[r].pass = "user_performance"
                  THEN [RunStart EXCEPT !.pc = "select", !.dry_run = run[r].dry_run,
                                        !.pass = "sales_performance"]
                  ELSE [RunStart EXCEPT !.pc = "done", !.dry_run = run[r].dry_run,
                                        !.pass = "sales_performance"]]
    /\ UNCHANGED <<mvars, xvars, customers, booked_opportunities, jobs, sales_persons,
                   hvars, audit>>

\* a statement raises: "except Exception as e: conn.rollback(); return 1"
Fail(r) ==
    /\ run[r].pc \in {"select", "loop"}
    /\ run' = [run EXCEPT ![r].pc = "failed", ![r].txn = {}]
    /\ UNCHANGED <<mvars, xvars, store, hvars, audit>>

\* the operator starts the script again after a failure
Retry(r) ==
    /\ run[r].pc = "failed"
    /\ run' = [run EXCEPT ![r] = RunStart]
    /\ UNCHANGED <<mvars, xvars, store, hvars, audit>>

NextPerf ==
    \E r \in Runs :
        \/ Start(r)
        \/ SelectOrphaned(r)
        \/ UpdateRecord(r)
        \/ NextRecord(r)
        \/ FinishPass(r)
        \/ Fail(r)
        \/ Retry(r)

SpecPerf == InitPerf /\ [][NextPerf]_vars

-----------------------------------------------------------------------------
(* Properties of find_best_match (checked under SpecMatch) *)

Called == mpc = "done"

CandIdx == DOMAIN candidate_list

Norm(s) == lower(strip(s))

\* candidate i's normalized name equals the normalized input name
NormEqual(i) == Norm(candidate_list[i].name) = Norm(name)

\* the same, for a candidate the loop does not skip
ExactAt(i) == ~Falsy(candidate_list[i].name) /\ NormEqual(i)

\* the similarity the loop computes for candidate i (a skipped candidate has
\* none; calculate_name_similarity gives 0.0 for an empty name)
CandScore(i) ==
    IF Falsy(candidate_list[i].name) THEN Zero
    ELSE calculate_name_similarity(Norm(name), Norm(candidate_list[i].name))

IsBest(i) == \A j \in CandIdx : RatLe(CandScore(j), CandScore(i))

\* the maximum similarity over the whole list (list not empty)
BestScore == CandScore(CHOOSE i \in CandIdx : IsBest(i))

ValidThreshold == RatLe(Zero, threshold) /\ RatLe(threshold, One)

\* the call reaches the end of the loop: a name, candidates, no exact match
ScansAll ==
    /\ Called
    /\ ~Falsy(name)
    /\ candidate_list # <<>>
    /\ \A i \in CandIdx : ~ExactAt(i)

\* C6: a threshold outside [0,1] is rejected: the matcher returns no match.
C6_OutOfRangeRejected ==
    (Called /\ ~ValidThreshold) => result = None

\* C7 (as stated): whenever some candidate's normalized name equals the
\* normalized input name, the result is that candidate with tier Exact and
\* score 1.0.
C7_ExactOnNormEqual ==
    (Called /\ \E i \in CandIdx : NormEqual(i)) =>
        /\ result.matched
        /\ result.match_type = "exact"
        /\ result.score = One
        /\ result.id \in CandIdx
        /\ NormEqual(result.id)

\* C7 (amended): for a non-empty name, whenever some candidate with a
\* non-empty name normalizes to the same string as the name, the result is the
\* first such candidate with tier Exact and score 1.0, whatever the other
\* candidates score and wherever they stand.
C7_ExactShortCircuit ==
    (Called /\ ~Falsy(name) /\ \E i \in CandIdx : ExactAt(i)) =>
        /\ result.matched
        /\ result.match_type = "exact"
        /\ result.score = One
        /\ result.id \in CandIdx
        /\ ExactAt(result.id)
        /\ \A j \in CandIdx : ExactAt(j) => result.id <= j

\* the second candidate, equal to the name up to case and outer spaces, is
\* returned as exact although the first candidate scores above the threshold
C7_Witness ==
    /\ Called
    /\ result.matched
    /\ result.match_type = "exact"
    /\ result.id = 2
    /\ candidate_list[2].name # name
    /\ RatLe(threshold, CandScore(1))
    /\ RatLt(Zero, threshold)

C27_MatchIsACandidate ==
    (Called /\ result.matched) =>
        /\ result.id # NULL
        /\ result.id \in CandIdx
        /\ ~Falsy(candidate_list[result.id].name)
        /\ RatEq(result.score, CandScore(result.id))

\* the call returned a match that is not an exact one
NonExactMatch == Called /\ result.matched /\ result.match_type # "exact"

\* C14 (as stated): every non-exact match returned has tier High exactly when
\* its score is at least 0.9 and tier Medium exactly when its score is at
\* least 0.75 and below 0.9, whatever the threshold passed.
C14_TierBands ==
    NonExactMatch =>
        /\ result.match_type = "high" <=> RatLe(HighCut, result.score)
        /\ result.match_type = "medium" <=>
               (RatLe(DefaultThreshold, result.score) /\ RatLt(result.score, HighCut))

\* C14 (amended): every non-exact match returned has a score of at least the
\* threshold passed, tier High exactly when that score is at least 0.9 and
\* tier Medium exactly when it is below 0.9, which includes scores below
\* 0.75 when the threshold passed is below 0.75.
C14_TierByHighCut ==
    NonExactMatch =>
        /\ result.match_type \in {"high", "medium"}
        /\ result.match_type = "high" <=> RatLe(HighCut, result.score)
        /\ result.match_type = "medium" <=> RatLt(result.score, HighCut)
        /\ RatLe(threshold, result.score)

\* under a threshold between 0 and 0.75 a candidate scoring below 0.75 has
\* been returned as medium
C14_Witness ==
    /\ NonExactMatch
    /\ RatLt(Zero, threshold)
    /\ RatLt(threshold, DefaultThreshold)
    /\ RatLt(result.score, DefaultThreshold)
    /\ result.match_type = "medium"

\* C9: without an exact match and with the best similarity reaching the
\* (valid) threshold, the result is a candidate of the list whose similarity is
\* the maximum over the list, the first of those sharing the maximum.
C9_FirstMaximum ==
    (ScansAll /\ ValidThreshold /\ RatLe(threshold, BestScore)) =>
        /\ result.matched
        /\ result.id \in CandIdx
        /\ IsBest(result.id)
        /\ \A j \in CandIdx : IsBest(j) => result.id <= j

\* C9, where the code agrees with it: a positive best similarity
C9_FirstMaximumWhenPositive ==
    (ScansAll /\ RatLe(threshold, BestScore) /\ RatLt(Zero, BestScore)) =>
        /\ result.matched
        /\ result.id \in CandIdx
        /\ IsBest(result.id)
        /\ \A j \in CandIdx : IsBest(j) => result.id <= j
        /\ RatEq(result.score, BestScore)


-----------------------------------------------------------------------------
(* Properties of the passes (checked under Spec) *)

JobToCustomerPasses == {"link_jobs_to_customers", "fill_job_customer_links"}

\* C1: run twice in succession over unchanged customers and booked
\* opportunities, the job-to-customer resolver changes no job's customer_id in
\* its second run.
C1_SecondRunChangesNothing ==
    (repeated /\ last_pass \in JobToCustomerPasses) =>
        \A j \in DOMAIN jobs : jobs[j].customer_id = pre.jobs[j].customer_id

\* a second run in succession, after runs that linked one job and left
\* another without a customer
C1_Witness ==
    /\ repeated
    /\ last_pass = "link_jobs_to_customers"
    /\ \E j \in DOMAIN jobs : jobs[j].customer_id # NULL
    /\ \E j \in DOMAIN jobs : jobs[j].customer_id = NULL

CustomerIdKept ==
    \A j \in DOMAIN jobs :
        pre.jobs[j].customer_id # NULL =>
            jobs[j].customer_id = pre.jobs[j].customer_id

JobSalesPersonIdKept ==
    \A j \in DOMAIN jobs :
        pre.jobs[j].sales_person_id # NULL =>
            jobs[j].sales_person_id = pre.jobs[j].sales_person_id

PerformanceSalesPersonIdKept ==
    /\ \A r \in DOMAIN user_performance :
          pre.user_performance[r].sales_person_id # NULL =>
              user_performance[r].sales_person_id
                  = pre.user_performance[r].sales_person_id
    /\ \A r \in DOMAIN sales_performance :
          pre.sales_performance[r].sales_person_id # NULL =>
              sales_performance[r].sales_person_id
                  = pre.sales_performance[r].sales_person_id

ByPriority(j, related, by_email, by_phone) ==
    IF related # {} THEN related
    ELSE IF by_email # {} THEN by_email
    ELSE IF by_phone # {} THEN by_phone
    ELSE {NULL}

\* C3: an unlinked job is linked by the first strategy of the priority order
\* that has a match for it; a later strategy never decides the link.
C3_EarlierStrategyWins ==
    /\ last_pass = "link_jobs_to_customers" =>
          \A j \in DOMAIN jobs :
              pre.jobs[j].customer_id = NULL =>
                  jobs[j].customer_id \in
                      ByPriority(j, strategy1_values(pre.jobs[j]),
                                 direct_email_matches(pre.jobs[j]),
                                 direct_phone_matches(pre.jobs[j]))
    /\ last_pass = "fill_job_customer_links" =>
          \A j \in DOMAIN jobs :
              pre.jobs[j].customer_id = NULL =>
                  jobs[j].customer_id \in
                      ByPriority(j, {}, fill_email_values(pre.jobs[j]),
                                 fill_phone_values(pre.jobs[j]))

ValidThresholds == { th \in Thresholds : RatLe(Zero, th) /\ RatLe(th, One) }

\* the name is empty, the list is empty, or every candidate scores below th
NoMatchCase(nm, cands, th) ==
    \/ Falsy(nm)
    \/ cands = <<>>
    \/ \A i \in DOMAIN cands :
          RatLt(calculate_name_similarity(nm, cands[i].name), th)

\* C10: for an empty name, an empty candidate list or candidates all below
\* the threshold, find_best_match returns no match; the linking pass leaves
\* such a record as it was and still links the records that have a match.
C10_NoMatchLeavesUnlinked ==
    last_pass = "link_orphaned_user_performance" =>
        \A r \in DOMAIN user_performance :
            pre.user_performance[r].sales_person_id = NULL =>
                LET nm == pre.user_performance[r].name
                    cands == get_all_sales_persons
                IN  /\ \A th \in ValidThresholds :
                          NoMatchCase(nm, cands, th) =>
                              find_best_match(nm, cands, th) = None
                    /\ IF NoMatchCase(nm, cands, DefaultThreshold)
                       THEN user_performance[r] = pre.user_performance[r]
                       ELSE user_performance[r].sales_person_id # NULL

\* a record whose candidates all score below the threshold, left unlinked,
\* stands in the order before a record that the same pass linked
C10_Witness ==
    /\ last_pass = "link_orphaned_user_performance"
    /\ \E r1, r2 \in DOMAIN user_performance :
          /\ pre.user_performance[r1].sales_person_id = NULL
          /\ pre.user_performance[r2].sales_person_id = NULL
          /\ StrLess(pre.user_performance[r1].name, pre.user_performance[r2].name)
          /\ ~Falsy(pre.user_performance[r1].name)
          /\ get_all_sales_persons # <<>>
          /\ NoMatchCase(pre.user_performance[r1].name, get_all_sales_persons,
                         DefaultThreshold)
          /\ user_performance[r1].sales_person_id = NULL
          /\ user_performance[r2].sales_person_id # NULL

-----------------------------------------------------------------------------
(* Properties of concurrent and failing runs (checked under SpecPerf) *)

AllDone == \A r \in Runs : run[r].pc = "done"

\* what one run with --execute, alone, makes of the first store
LinkedOnce == <<link_orphaned(audit.first[1]), link_orphaned(audit.first[2])>>

\* when every run has returned 0, each table is as it was or as one run alone
\* leaves it, and the latter if some run was started with --execute
SerialOutcome ==
    AllDone =>
        /\ user_performance \in {audit.first[1], LinkedOnce[1]}
        /\ sales_performance \in {audit.first[2], LinkedOnce[2]}
        /\ (\E r \in Runs : ~run[r].dry_run) =>
              <<user_performance, sales_performance>> = LinkedOnce

\* C4: runs at work on the same store at once, or started again while another
\* is under way, end with the foreign keys of some serial order, and no run
\* writes the foreign key of a row on which another run has already set it.
C4_SerialAndNeverOverwrites ==
    SerialOutcome /\ audit.overwritten = {}

\* C5: when a run has failed, no write of that run remains: with no other run
\* started, the store is as it was when the run started, even if an earlier
\* pass of the run had finished.
C5_FailedRunLeavesNoWrite ==
    \A r \in Runs :
        (run[r].pc = "failed" /\ audit.started = {r}) =>
            <<user_performance, sales_performance>> = audit.at_start[r]


-----------------------------------------------------------------------------
(* Two names compared with each other: calculate_name_similarity in both    *)
(* orders, normalize_name of each, and find_best_match of the first against *)
(* the second as the only candidate, at the default threshold.              *)

PairPool ==
    { NULLSTR, <<>>, <<" ">>,
      <<"a", "b">>, <<"A", "B", " ">>, <<" ", "a", "b">>,
      <<"a", " ", "b">>, <<"a", " ", " ", "b">>, <<"A", " ", "B">>,
      <<"a", "b", "c">>, <<"c", "a", "c">>, <<"b">> }

InitPair ==
    /\ MatcherIdle
    /\ customers = <<>> /\ booked_opportunities = <<>> /\ jobs = <<>>
    /\ sales_persons = <<>> /\ user_performance = <<>> /\ sales_performance = <<>>
    /\ HistoryInit
    /\ RunsIdle
    /\ PotentialIdle /\ ClassifierIdle /\ WIdle
    /\ name1 \in PairPool
    /\ name2 \in PairPool
    /\ cmp = [called |-> FALSE]

ComparePair ==
    /\ ~cmp.called
    /\ cmp' = [called     |-> TRUE,
               forward    |-> calculate_name_similarity(name1, name2),
               backward   |-> calculate_name_similarity(name2, name1),
               normalized |-> <<normalize_name(name1), normalize_name(name2)>>,
               match      |-> find_best_match(name1, <<[id |-> 1, name |-> name2]>>,
                                              DefaultThreshold)]
    /\ UNCHANGED <<name1, name2, mvars, store, hvars, pvars, qvars, dvars, wvars>>

NextPair == ComparePair

SpecPair == InitPair /\ [][NextPair]_vars

\* a name that is a non-empty string
Given(nm) == ~Falsy(nm)

\* the two names have equal forms once stripped and lower-cased
SameStripLower == lower(strip(name1)) = lower(strip(name2))

\* C11: the similarity of two names is the same in both orders, and a
\* non-empty name compared with itself scores 1.0
C11_SymmetricAndReflexive ==
    cmp.called =>
        /\ RatEq(cmp.forward, cmp.backward)
        /\ (Given(name1) /\ name1 = name2 => RatEq(cmp.forward, One))

\* C12 as stated: for all inputs, empty and whitespace-only ones included,
\* the score is 1.0 exactly when the normalized forms are equal, and
\* otherwise lies in [0, 1)
C12_OneIffNormalizedEqual ==
    cmp.called =>
        /\ RatEq(cmp.forward, One) <=> (cmp.normalized[1] = cmp.normalized[2])
        /\ (cmp.normalized[1] # cmp.normalized[2] =>
                RatLe(Zero, cmp.forward) /\ RatLt(cmp.forward, One))

\* C12 amended: for two non-empty names (whitespace-only ones included) the
\* score is 1.0 exactly when their stripped, lower-cased forms are equal and
\* otherwise lies in [0, 1); when either name is empty or missing it is 0.0
C12_OneIffEqualWhenBothGiven ==
    cmp.called =>
        /\ (Given(name1) /\ Given(name2) =>
               /\ RatEq(cmp.forward, One) <=> SameStripLower
               /\ (~SameStripLower =>
                       RatLe(Zero, cmp.forward) /\ RatLt(cmp.forward, One)))
        /\ (~Given(name1) \/ ~Given(name2) => RatEq(cmp.forward, Zero))

\* two different non-empty names whose stripped, lower-cased forms are equal
\* have been scored
C12_Witness ==
    /\ cmp.called
    /\ Given(name1) /\ Given(name2) /\ name1 # name2
    /\ SameStripLower
    /\ RatEq(cmp.forward, One)

\* the normalization of the specification: trimmed, lower-cased, internal
\* runs of whitespace collapsed, nothing for a missing or empty name
Collapsed(nm) == IF Falsy(nm) THEN <<>> ELSE collapse_ws(lower(strip(nm)))

\* the pair was matched as Exact
MatchedExact ==
    /\ cmp.match.matched
    /\ cmp.match.match_type = "exact"
    /\ RatEq(cmp.match.score, One)

\* C13 as stated: normalization trims, lower-cases and collapses internal
\* whitespace, so that two names differing only in case, surrounding
\* whitespace or internal spacing normalize alike and are matched as Exact;
\* a missing or empty name normalizes to the empty string
C13_SpacingAndCaseInsensitiveExact ==
    cmp.called =>
        /\ cmp.normalized[1] = Collapsed(name1)
        /\ cmp.normalized[2] = Collapsed(name2)
        /\ (Given(name1) /\ Given(name2) /\ Collapsed(name1) = Collapsed(name2)
                => cmp.normalized[1] = cmp.normalized[2] /\ MatchedExact)

\* C13 amended: normalization trims and lower-cases (internal whitespace is
\* kept), so that two non-empty names differing only in case or surrounding
\* whitespace normalize alike and are matched as Exact, two names differing
\* otherwise, internal spacing included, are not; a missing or empty name
\* normalizes to the empty string
C13_CaseAndTrimInsensitiveExact ==
    cmp.called =>
        /\ (~Given(name1) => cmp.normalized[1] = <<>>)
        /\ (~Given(name2) => cmp.normalized[2] = <<>>)
        /\ (Given(name1) /\ Given(name2) =>
               /\ (cmp.normalized[1] = cmp.normalized[2]) <=> SameStripLower
               /\ MatchedExact <=> SameStripLower)

\* a name has been matched as Exact to a candidate that differs from it in
\* case and in surrounding whitespace
C13_Witness ==
    /\ cmp.called
    /\ name1 = <<"a", "b">>
    /\ name2 = <<"A", "B", " ">>
    /\ cmp.normalized[1] = cmp.normalized[2]
    /\ MatchedExact


-----------------------------------------------------------------------------
(* scripts/analyze_job_customer_linkage.py: analyze_matching_scenarios      *)
(* (query5) and get_potential_matches, on one row of jobs and one row of    *)
(* customers. The conditions are conjunctions and disjunctions of           *)
(* comparisons, so a comparison with NULL counts as not satisfied.          *)

\* "(x IS NULL OR x = '')"
Blank(v) == v = NULLSTR \/ v = <<>>

\* "(j.origin_city = c.origin_city OR (j.origin_city IS NULL AND c.origin_city IS NULL))"
same_city(a, b) == SqlEq(a, b) \/ (a = NULLSTR /\ b = NULLSTR)

\* query5: the join and the WHERE clause of "jobs with name only that could
\* match by name+location"
name_location_matchable(j, c) ==
    /\ SqlEq(j.customer_name, c.name)
    /\ same_city(j.origin_city, c.origin_city)
    /\ same_city(j.destination_city, c.destination_city)
    /\ j.customer_name # NULLSTR
    /\ j.customer_name # <<>>
    /\ Blank(j.customer_email)
    /\ Blank(j.customer_phone)
    /\ j.customer_id = NULL
    /\ Blank(c.email)
    /\ Blank(c.phone)

\* the tests on the absence of email and phone left out
name_location_join_any_contact(j, c) ==
    /\ SqlEq(j.customer_name, c.name)
    /\ same_city(j.origin_city, c.origin_city)
    /\ same_city(j.destination_city, c.destination_city)

\* get_potential_matches: the last branch of the ON clause
name_location_join(j, c) ==
    /\ SqlEq(j.customer_name, c.name)
    /\ same_city(j.origin_city, c.origin_city)
    /\ same_city(j.destination_city, c.destination_city)
    /\ Blank(j.customer_email)
    /\ Blank(j.customer_phone)
    /\ Blank(c.email)
    /\ Blank(c.phone)

\* get_potential_matches: the ON clause and the WHERE clause
potential_join(j, c) ==
    /\ \/ /\ SqlEq(j.customer_email, c.email)
          /\ j.customer_email # NULLSTR /\ j.customer_email # <<>>
       \/ /\ SqlEq(j.customer_phone, c.phone)
          /\ j.customer_phone # NULLSTR /\ j.customer_phone # <<>>
       \/ /\ SqlEq(j.customer_email, c.email)
          /\ SqlEq(j.customer_name, c.name)
          /\ j.customer_email # NULLSTR
       \/ /\ SqlEq(j.customer_phone, c.phone)
          /\ SqlEq(j.customer_name, c.name)
          /\ j.customer_phone # NULLSTR
       \/ name_location_join(j, c)
    /\ j.customer_name # NULLSTR
    /\ j.customer_name # <<>>
    /\ j.customer_id = NULL

\* get_potential_matches: the CASE expression
potential_match_type(j, c) ==
    IF SqlEq(j.customer_email, c.email) /\ j.customer_email # NULLSTR THEN "email"
    ELSE IF SqlEq(j.customer_phone, c.phone) /\ j.customer_phone # NULLSTR THEN "phone"
    ELSE IF SqlEq(j.customer_email, c.email) /\ SqlEq(j.customer_name, c.name)
         THEN "email_name"
    ELSE IF SqlEq(j.customer_phone, c.phone) /\ SqlEq(j.customer_name, c.name)
         THEN "phone_name"
    ELSE IF /\ SqlEq(j.customer_name, c.name)
            /\ same_city(j.origin_city, c.origin_city)
            /\ same_city(j.destination_city, c.destination_city)
         THEN "name_location"
    ELSE "unknown"

PotentialJobs ==
    [customer_name    : {NULLSTR, <<>>, Str_n, <<"m">>},
     customer_email   : {NULLSTR, <<>>, Str_e},
     customer_phone   : {NULLSTR, <<>>, Str_5},
     origin_city      : {NULLSTR, <<"x">>},
     destination_city : {NULLSTR, <<"x">>},
     customer_id      : {NULL, 1}]

PotentialCustomers ==
    [name             : {<<>>, Str_n},
     email            : {NULLSTR, <<>>, Str_e},
     phone            : {NULLSTR, <<>>, Str_5},
     origin_city      : {NULLSTR, <<"x">>},
     destination_city : {NULLSTR, <<"x">>}]

InitPotential ==
    /\ MatcherIdle
    /\ customers = <<>> /\ booked_opportunities = <<>> /\ jobs = <<>>
    /\ sales_persons = <<>> /\ user_performance = <<>> /\ sales_performance = <<>>
    /\ HistoryInit
    /\ RunsIdle
    /\ PairIdle /\ ClassifierIdle /\ WIdle
    /\ job_row \in PotentialJobs
    /\ customer_row \in PotentialCustomers
    /\ potential = [step |-> "none"]

\* query5 of analyze_matching_scenarios: is the job counted through this customer
AnalyzeMatchingScenarios ==
    /\ potential.step = "none"
    /\ potential' =
          LET joined == name_location_matchable(job_row, customer_row)
          IN  [step       |-> "analyze_matching_scenarios",
               joined     |-> joined,
               match_type |-> IF joined THEN "name_location" ELSE "none"]
    /\ UNCHANGED <<job_row, customer_row, mvars, store, hvars, pvars, cvars, dvars, wvars>>

\* get_potential_matches: the row of the result for the pair, if there is one
GetPotentialMatches ==
    /\ potential.step = "none"
    /\ potential' =
          LET joined == potential_join(job_row, customer_row)
          IN  [step       |-> "get_potential_matches",
               joined     |-> joined,
               match_type |-> IF joined
                              THEN potential_match_type(job_row, customer_row)
                              ELSE "none"]
    /\ UNCHANGED <<job_row, customer_row, mvars, store, hvars, pvars, cvars, dvars, wvars>>

NextPotential == AnalyzeMatchingScenarios \/ GetPotentialMatches

SpecPotential == InitPotential /\ [][NextPotential]_vars

\* the pair was matched by name and city pair
MatchedByNameLocation ==
    /\ potential.step # "none"
    /\ potential.joined
    /\ potential.match_type = "name_location"

\* C16: a job and a customer are matched by name plus city pair only when the
\* job has neither email nor phone and the customer has neither email nor
\* phone.
C16_NameLocationOnlyWithoutContact ==
    MatchedByNameLocation =>
        /\ Blank(job_row.customer_email)
        /\ Blank(job_row.customer_phone)
        /\ Blank(customer_row.email)
        /\ Blank(customer_row.phone)

\* get_potential_matches has matched a job to a customer by name and city
\* pair, one of the cities missing on both
C16_Witness ==
    /\ MatchedByNameLocation
    /\ potential.step = "get_potential_matches"
    /\ job_row.origin_city # NULLSTR
    /\ job_row.destination_city = NULLSTR


-----------------------------------------------------------------------------
(* analytics/job_duplicate_detection: the duplicate classifier, whose three *)
(* levels and whose combination are taken from the design (section 4.4,     *)
(* the DuplicateGroup of section 3, the options of section 6); the names    *)
(* and the columns are those scripts/test_duplicate_detection.py uses.      *)
(* Times are whole hours, costs whole amounts, both positive; NULL and      *)
(* NULLSTR stand for a missing number and a missing text.                   *)

Levels == {1, 2, 3}

fuzzy_duplicate_window_hours == 2

suspicious_window_hours == 24

cost_tolerance_pct == 5

\* the confidence a level gives to the records it flags
confidence(level) ==
    CASE level = 1 -> <<99, 100>>
      [] level = 2 -> <<85, 100>>
      [] level = 3 -> <<70, 100>>

\* total_estimated_cost left out of the Level-1 tuple
required_fields_costless(level) ==
    CASE level = 1 -> {"customer_id", "job_date", "job_type", "created_at_utc",
                       "origin_address", "destination_address"}
      [] level = 2 -> {"customer_id", "job_date", "created_at_utc",
                       "origin_address", "destination_address"}
      [] level = 3 -> {"customer_id", "job_date", "created_at_utc",
                       "origin_city", "destination_city", "total_estimated_cost"}

\* the fields a level compares; created_at_utc is needed at every level to
\* tell the canonical record of a pair, the one created first
required_fields(level) ==
    CASE level = 1 -> {"customer_id", "job_date", "job_type", "created_at_utc",
                       "origin_address", "destination_address",
                       "total_estimated_cost"}
      [] level = 2 -> {"customer_id", "job_date", "created_at_utc",
                       "origin_address", "destination_address"}
      [] level = 3 -> {"customer_id", "job_date", "created_at_utc",
                       "origin_city", "destination_city", "total_estimated_cost"}

Present(r, f) ==
    IF f \in {"customer_id", "job_date", "created_at_utc", "total_estimated_cost"}
    THEN r[f] # NULL
    ELSE r[f] # NULLSTR

\* a missing field compared like any value
eligible_always(r, level) == TRUE

\* the record takes part in the comparisons of the level
eligible(r, level) == \A f \in required_fields(level) : Present(r, f)

Within(x, y, window) == x - y <= window /\ y - x <= window

\* the two records are duplicates of each other in the eyes of the level
level_pair(level, a, b) ==
    /\ eligible(a, level)
    /\ eligible(b, level)
    /\ CASE level = 1 ->
              \A f \in required_fields(1) : a[f] = b[f]
         [] level = 2 ->
              /\ a.customer_id = b.customer_id
              /\ Within(a.job_date, b.job_date, fuzzy_duplicate_window_hours)
              /\ Within(a.created_at_utc, b.created_at_utc,
                        fuzzy_duplicate_window_hours)
              /\ RatLe(DefaultThreshold,
                       calculate_name_similarity(a.origin_address, b.origin_address))
              /\ RatLe(DefaultThreshold,
                       calculate_name_similarity(a.destination_address,
                                                 b.destination_address))
         [] level = 3 ->
              /\ a.customer_id = b.customer_id
              /\ Within(a.job_date, b.job_date, suspicious_window_hours)
              /\ a.origin_city = b.origin_city
              /\ a.destination_city = b.destination_city
              /\ LET lo == IF a.total_estimated_cost <= b.total_estimated_cost
                           THEN a.total_estimated_cost ELSE b.total_estimated_cost
                     hi == IF a.total_estimated_cost <= b.total_estimated_cost
                           THEN b.total_estimated_cost ELSE a.total_estimated_cost
                 IN  (hi - lo) * 100 <= cost_tolerance_pct * lo

\* every record of a pair counts as created after the other
earlier_any(B, j, i) == TRUE

\* record j was created before record i (of two created together, the one
\* that stands first in the batch)
earlier(B, j, i) ==
    \/ B[j].created_at_utc < B[i].created_at_utc
    \/ B[j].created_at_utc = B[i].created_at_utc /\ j < i

\* a record is compared with itself as well
flagged_at_self_included(level, B) ==
    [i \in DOMAIN B |->
        \E j \in DOMAIN B : level_pair(level, B[j], B[i]) /\ (j = i \/ earlier(B, j, i))]

\* per record of the batch: is it the duplicate of a record created earlier
flagged_at(level, B) ==
    [i \in DOMAIN B |->
        \E j \in DOMAIN B : j # i /\ level_pair(level, B[j], B[i]) /\ earlier(B, j, i)]

detect_level_1_exact_duplicates(B) == flagged_at(1, B)

detect_level_2_fuzzy_duplicates(B) == flagged_at(2, B)

detect_level_3_suspicious_patterns(B) == flagged_at(3, B)

\* the confidence of the level that ran last is written over the other
higher_latest(a, b) == b

\* the maximum of two confidences
higher(a, b) == IF RatLt(a, b) THEN b ELSE a

\* the columns of one record once a level has given its verdict on it
combine(f, level, hit) ==
    [is_duplicate_level   |-> [f.is_duplicate_level EXCEPT ![level] = hit],
     is_duplicate         |-> f.is_duplicate \/ hit,
     duplicate_confidence |-> IF hit THEN higher(f.duplicate_confidence,
                                                 confidence(level))
                              ELSE f.duplicate_confidence]

MaxBatch == 3

BaseJob ==
    [customer_id |-> 1, job_date |-> 10, job_type |-> <<"R">>, created_at_utc |-> 5,
     origin_address |-> <<"a", "b">>, destination_address |-> <<"d">>,
     origin_city |-> <<"x">>, destination_city |-> <<"y">>,
     total_estimated_cost |-> 100]

\* the base record; a resubmission an hour later with the address written
\* otherwise; a requote twenty hours later; records without job_date, without
\* cost, without destination city; another customer's record; an earlier
\* record for another amount
JobPool ==
    { BaseJob,
      [BaseJob EXCEPT !.job_date = 11, !.created_at_utc = 6,
                      !.origin_address = <<"a", "b", "c">>],
      [BaseJob EXCEPT !.job_date = 30, !.created_at_utc = 7,
                      !.origin_address = <<"x", "y">>,
                      !.total_estimated_cost = 104],
      [BaseJob EXCEPT !.job_date = NULL],
      [BaseJob EXCEPT !.total_estimated_cost = NULL],
      [BaseJob EXCEPT !.destination_city = NULLSTR],
      [BaseJob EXCEPT !.customer_id = 2],
      [BaseJob EXCEPT !.job_date = 12, !.created_at_utc = 4,
                      !.total_estimated_cost = 200] }

Batches == UNION { [1..n -> JobPool] : n \in 0..MaxBatch }

InitClassifier ==
    /\ MatcherIdle
    /\ customers = <<>> /\ booked_opportunities = <<>> /\ jobs = <<>>
    /\ sales_persons = <<>> /\ user_performance = <<>> /\ sales_performance = <<>>
    /\ HistoryInit
    /\ RunsIdle
    /\ PairIdle /\ PotentialIdle /\ WIdle
    /\ batch \in Batches
    /\ flags = [i \in DOMAIN batch |->
                   [is_duplicate_level   |-> [k \in Levels |-> FALSE],
                    is_duplicate         |-> FALSE,
                    duplicate_confidence |-> Zero]]
    /\ levels_run = {}

\* detect_all_duplicates runs the three levels, here in any order
RunLevel(level, found) ==
    /\ level \notin levels_run
    /\ flags' = [i \in DOMAIN batch |-> combine(flags[i], level, found[i])]
    /\ levels_run' = levels_run \cup {level}
    /\ UNCHANGED <<batch, mvars, store, hvars, pvars, cvars, qvars, wvars>>

DetectLevel1 == RunLevel(1, detect_level_1_exact_duplicates(batch))

DetectLevel2 == RunLevel(2, detect_level_2_fuzzy_duplicates(batch))

DetectLevel3 == RunLevel(3, detect_level_3_suspicious_patterns(batch))

detect_all_duplicates == DetectLevel1 \/ DetectLevel2 \/ DetectLevel3

SpecClassifier == InitClassifier /\ [][detect_all_duplicates]_vars


\* the levels that have run and flagged record i
Triggered(i) == { k \in levels_run : flags[i].is_duplicate_level[k] }

\* C17: after combined detection, whatever the order of the levels, a
\* record's is_duplicate is true exactly when some level flagged it, and its
\* duplicate_confidence is the highest confidence among the levels that
\* flagged it: 0.99 with Level 1, else 0.85 with Level 2, else 0.70.
C17_FlagIsOrConfidenceIsMax ==
    \A i \in DOMAIN flags :
        /\ \A k \in levels_run :
              flags[i].is_duplicate_level[k] = flagged_at(k, batch)[i]
        /\ flags[i].is_duplicate <=> Triggered(i) # {}
        /\ flags[i].duplicate_confidence =
              IF 1 \in Triggered(i) THEN <<99, 100>>
              ELSE IF 2 \in Triggered(i) THEN <<85, 100>>
              ELSE IF 3 \in Triggered(i) THEN <<70, 100>>
              ELSE Zero

\* all three levels have run over a batch with a record flagged by all three
\* and a record flagged by Level 3 only
C17_Witness ==
    /\ levels_run = Levels
    /\ \E i \in DOMAIN flags :
          Triggered(i) = Levels /\ flags[i].duplicate_confidence = <<99, 100>>
    /\ \E i \in DOMAIN flags :
          Triggered(i) = {3} /\ flags[i].duplicate_confidence = <<70, 100>>

\* the records of the batch that collide with record i on the Level-1 tuple
Level1Group(i) ==
    { j \in DOMAIN batch :
        \A f \in required_fields(1) :
            Present(batch[i], f) /\ Present(batch[j], f) /\ batch[i][f] = batch[j][f] }

C19_EmptyAndSingle ==
    /\ Len(flags) = Len(batch)
    /\ Len(batch) = 1 =>
          /\ ~flags[1].is_duplicate
          /\ \A k \in Levels : ~flags[1].is_duplicate_level[k]
          /\ flags[1].duplicate_confidence = Zero

\* the three levels have run over a batch of one record
C19_Witness ==
    /\ levels_run = Levels
    /\ Len(batch) = 1
    /\ ~flags[1].is_duplicate

\* the batch without its record i
Remove(B, i) == SubSeq(B, 1, i - 1) \o SubSeq(B, i + 1, Len(B))

\* C20: a record that lacks a field a level requires is not flagged by that
\* level, and the other records get from that level the verdict they get in
\* the batch without that record; every record of the batch has its columns.
C20_MissingFieldExcluded ==
    /\ Len(flags) = Len(batch)
    /\ \A k \in levels_run : \A i \in DOMAIN batch :
          (\E f \in required_fields(k) : ~Present(batch[i], f)) =>
              /\ ~flags[i].is_duplicate_level[k]
              /\ \A j \in DOMAIN batch \ {i} :
                    flags[j].is_duplicate_level[k] =
                        flagged_at(k, Remove(batch, i))[IF j < i THEN j ELSE j - 1]

\* Level 3 has run over a batch where a record without job_date stands before
\* two records of which the later is flagged by Level 3
C20_Witness ==
    /\ 3 \in levels_run
    /\ Len(batch) = 3
    /\ batch[1].job_date = NULL
    /\ ~flags[1].is_duplicate_level[3]
    /\ flags[3].is_duplicate_level[3]


\* both records have both cities, and the same ones
SameCitiesOnFile(a, b) ==
    /\ \A f \in {"origin_city", "destination_city"} : Present(a, f) /\ Present(b, f)
    /\ a.origin_city = b.origin_city
    /\ a.destination_city = b.destination_city

\* C21 (as stated): every pair of records that Level 1 treats as duplicates of
\* each other satisfies the Level 3 predicate as well, in every batch, records
\* with a missing city or cost included.
C21_Level1PairIsLevel3Pair ==
    \A i, j \in DOMAIN batch :
        (i # j /\ level_pair(1, batch[i], batch[j])) =>
            level_pair(3, batch[i], batch[j])

\* C21 (amended): every pair of records that Level 1 treats as duplicates of
\* each other and that have both cities on file, the same on both records,
\* satisfies the Level 3 predicate as well; the cities are no part of the
\* Level-1 tuple, so a Level-1 pair with a city missing or differing is no
\* Level-3 pair.
C21_Level1PairWithCitiesIsLevel3Pair ==
    \A i, j \in DOMAIN batch :
        (i # j /\ level_pair(1, batch[i], batch[j])) =>
            (level_pair(3, batch[i], batch[j])
                <=> SameCitiesOnFile(batch[i], batch[j]))

\* Levels 1 and 3 have run over a batch with a Level-1 pair that has its
\* cities, flagged at both levels, and a Level-1 pair without destination
\* city, flagged at Level 1 only
C21_Witness ==
    /\ {1, 3} \subseteq levels_run
    /\ \E i, j \in DOMAIN batch :
          /\ i < j
          /\ level_pair(1, batch[i], batch[j])
          /\ SameCitiesOnFile(batch[i], batch[j])
          /\ flags[j].is_duplicate_level[1] /\ flags[j].is_duplicate_level[3]
    /\ \E i, j \in DOMAIN batch :
          /\ i < j
          /\ level_pair(1, batch[i], batch[j])
          /\ batch[i].destination_city = NULLSTR
          /\ flags[j].is_duplicate_level[1] /\ ~flags[j].is_duplicate_level[3]


-----------------------------------------------------------------------------
(* Everything modelled above at rest, for the scripts that follow.          *)

OldIdle ==
    /\ MatcherIdle
    /\ customers = <<>> /\ booked_opportunities = <<>> /\ jobs = <<>>
    /\ sales_persons = <<>> /\ user_performance = <<>> /\ sales_performance = <<>>
    /\ HistoryInit
    /\ RunsIdle
    /\ PairIdle /\ PotentialIdle /\ ClassifierIdle

-----------------------------------------------------------------------------
(* scripts/fix_database_issues.py: detect_duplicate_jobs (dry_run = False). *)
(* ROW_NUMBER() OVER (PARTITION BY ... ORDER BY created_at) numbers the     *)
(* rows of a partition that share created_at in an order the statement does *)
(* not fix: any of the rows created first may be row 1.                     *)

\* pass 1: "WHERE job_id IS NOT NULL", "PARTITION BY job_id"
job_id_rows(J) == { i \in DOMAIN J : J[i].job_id # NULL }

job_id_key(J) == [i \in DOMAIN J |-> <<J[i].job_id>>]

\* pass 2: the three columns not NULL, and the partition by them
similarity_rows(J) ==
    { i \in DOMAIN J : /\ J[i].customer_id # NULL
                       /\ J[i].job_date # NULL
                       /\ J[i].total_estimated_cost # NULL }

similarity_key(J) ==
    [i \in DOMAIN J |-> <<J[i].customer_id, J[i].job_date, J[i].total_estimated_cost>>]

\* "d.rn >= 1": no row is spared
first_rows_none(J, rows, key) == {{}}

\* the ways to pick the row numbered 1 in every partition: one row per
\* partition, none created after another row of its partition
first_rows(J, rows, key) ==
    { F \in SUBSET rows :
        /\ \A i \in rows : \E f \in F : key[f] = key[i]
        /\ \A f, g \in F : key[f] = key[g] => f = g
        /\ \A f \in F : \A i \in rows :
              key[i] = key[f] => J[f].created_at <= J[i].created_at }

\* "UPDATE jobs SET is_duplicate = true ... WHERE d.rn > 1 AND j.is_duplicate = false"
mark_duplicates(J, rows, key) ==
    { [i \in DOMAIN J |->
          IF i \in rows /\ i \notin F /\ ~J[i].is_duplicate
          THEN [J[i] EXCEPT !.is_duplicate = TRUE]
          ELSE J[i]] : F \in first_rows(J, rows, key) }

\* both statements, then conn.commit(): every table the function can leave
detect_duplicate_jobs(J) ==
    UNION { mark_duplicates(J1, similarity_rows(J1), similarity_key(J1)) :
              J1 \in mark_duplicates(J, job_id_rows(J), job_id_key(J)) }

NumDupJobs == 3

\* the jobs in the order of their creation, none flagged yet
DupTables ==
    { J \in [1..NumDupJobs ->
               [job_id : {NULL, 1, 2}, customer_id : {NULL, 1, 2}, job_date : {1},
                total_estimated_cost : {1}, created_at : 1..NumDupJobs,
                is_duplicate : {FALSE}]] :
        /\ J[1].created_at = 1
        /\ \A i \in 2..NumDupJobs :
              J[i].created_at \in {J[i - 1].created_at, J[i - 1].created_at + 1} }

InitDuplicateJobs ==
    /\ OldIdle
    /\ ExportIdle /\ GuardIdle /\ DryRunIdle /\ EntitiesIdle /\ CascadeIdle /\ ImportIdle
    /\ dup_jobs \in DupTables
    /\ dup_runs = <<>>

\* one run of the function, its marks recorded
DetectDuplicateJobs ==
    /\ Len(dup_runs) < 2
    /\ \E J \in detect_duplicate_jobs(dup_jobs) :
          /\ dup_jobs' = J
          /\ dup_runs' = Append(dup_runs, [i \in DOMAIN J |-> J[i].is_duplicate])
    /\ UNCHANGED rest_jvars

SpecDuplicateJobs == InitDuplicateJobs /\ [][DetectDuplicateJobs]_vars

\* jobs i and j stand in one partition of pass 1 or of pass 2
SameJobId(i, j) ==
    dup_jobs[i].job_id # NULL /\ dup_jobs[i].job_id = dup_jobs[j].job_id

SameSimilarityKey(i, j) ==
    /\ i \in similarity_rows(dup_jobs)
    /\ j \in similarity_rows(dup_jobs)
    /\ similarity_key(dup_jobs)[i] = similarity_key(dup_jobs)[j]

Grouped(i, j) == i # j /\ (SameJobId(i, j) \/ SameSimilarityKey(i, j))

\* no two jobs of one partition were created at the same instant
NoTies ==
    \A i, j \in DOMAIN dup_jobs :
        Grouped(i, j) => dup_jobs[i].created_at # dup_jobs[j].created_at

\* C28 (as stated): after a run of both passes on jobs none of which was
\* flagged before, every group of jobs sharing a non-null job_id still holds a
\* job that is not flagged, and a second run flags no further job.
C28_JobIdGroupKeepsOne ==
    /\ Len(dup_runs) >= 1 =>
          \A i \in DOMAIN dup_jobs :
              dup_jobs[i].job_id # NULL =>
                  \E j \in DOMAIN dup_jobs :
                      dup_jobs[j].job_id = dup_jobs[i].job_id /\ ~dup_runs[1][j]
    /\ Len(dup_runs) = 2 => dup_runs[2] = dup_runs[1]

\* C28 (amended): after a run of both passes on jobs none of which was flagged
\* before, a job is flagged only if another job with its job_id, or with its
\* customer, date and cost, was created no later than it, and always if one
\* was created before it; so at most one job of each such group stays
\* unflagged, and a job_id group keeps none when its earliest job follows a
\* job of the same customer, date and cost. When no two jobs of a group were
\* created at the same instant, a second run flags no further job.
C28_FlaggedIffNotFirst ==
    /\ Len(dup_runs) >= 1 =>
          \A i \in DOMAIN dup_jobs :
              /\ dup_runs[1][i] =>
                    \E j \in DOMAIN dup_jobs :
                        /\ Grouped(i, j)
                        /\ dup_jobs[j].created_at <= dup_jobs[i].created_at
              /\ (\E j \in DOMAIN dup_jobs :
                     /\ Grouped(i, j)
                     /\ dup_jobs[j].created_at < dup_jobs[i].created_at)
                    => dup_runs[1][i]
              /\ \A j \in DOMAIN dup_jobs :
                    Grouped(i, j) => dup_runs[1][i] \/ dup_runs[1][j]
    /\ (Len(dup_runs) = 2 /\ NoTies) => dup_runs[2] = dup_runs[1]

\* two runs have been made over two jobs sharing a job_id, both flagged, the
\* earlier of them after a job of its customer, date and cost
C28_Witness ==
    /\ Len(dup_runs) = 2
    /\ NoTies
    /\ SameJobId(2, 3)
    /\ SameSimilarityKey(1, 2)
    /\ ~dup_runs[2][1]
    /\ dup_runs[2][2]
    /\ dup_runs[2][3]


-----------------------------------------------------------------------------
(* scripts/export_review_queue.py: export_suspicious_duplicates, run on the *)
(* batch once detect_all_duplicates has returned.                           *)

\* only the rows no other level flagged
suspicious_level_3_only(F) ==
    { i \in DOMAIN F : /\ F[i].is_duplicate_level[3]
                       /\ ~F[i].is_duplicate_level[1]
                       /\ ~F[i].is_duplicate_level[2] }

\* "jobs[jobs['is_duplicate_level_3'] == True]"
suspicious(F) == { i \in DOMAIN F : F[i].is_duplicate_level[3] }

\* the rows are written when there are any
ExportSuspiciousDuplicates ==
    /\ levels_run = Levels
    /\ review_queue.state = "none"
    /\ review_queue' = IF suspicious(flags) # {}
                       THEN [state |-> "exported", rows |-> suspicious(flags)]
                       ELSE [state |-> "nothing found", rows |-> {}]
    /\ UNCHANGED rest_evars

\* "except Exception as e: logger.error(...)": to_csv raises, the function
\* logs the error and returns
ExportFails ==
    /\ levels_run = Levels
    /\ review_queue.state = "none"
    /\ review_queue' = [state |-> "failed", rows |-> {}]
    /\ UNCHANGED rest_evars

NextExport == detect_all_duplicates \/ ExportSuspiciousDuplicates \/ ExportFails

InitExport == InitClassifier

SpecExport == InitExport /\ [][NextExport]_vars

-----------------------------------------------------------------------------
(* scripts/utils/script_execution.py: check_and_log_execution, and the main *)
(* of two scripts that use it: fill/fill_empty_columns.py (as do            *)
(* update/update_sales_person_links.py and import/import_performance_data.py, *)
(* whose main is the same) and relationships/complete_quote_linkage.py (as  *)
(* does lookup/merge_sales_person_variations.py). script_executions is the  *)
(* committed content of the table behind log_script_execution.              *)

\* the scripts whose main returns when check_and_log_execution returns True
ReturnsOnTrue == {"fill_empty_columns"}

\* the scripts whose main returns when it returns False
ReturnsOnFalse == {"complete_quote_linkage"}

\* script_already_executed
script_already_executed(log, nm) == nm \in log

\* log_script_execution: the row is inserted and committed at once
log_script_execution(log, nm) == log \cup {nm}

\* check_and_log_execution: the value returned and the log it leaves
check_and_log_execution(log, nm, force) ==
    IF force THEN [returns |-> TRUE, log |-> log_script_execution(log, nm)]
    ELSE IF script_already_executed(log, nm) THEN [returns |-> FALSE, log |-> log]
    ELSE [returns |-> TRUE, log |-> log_script_execution(log, nm)]

MaxInvocations == 3

InitGuard ==
    /\ OldIdle
    /\ DuplicateJobsIdle /\ ExportIdle /\ DryRunIdle /\ EntitiesIdle /\ CascadeIdle /\ ImportIdle
    /\ script_name \in ReturnsOnTrue \cup ReturnsOnFalse
    /\ script_executions = {}
    /\ invocation = [pc |-> "idle"]
    /\ invocations = <<>>

\* the invocation ends: what it did is kept
Ended(inv, log) ==
    /\ invocations' = Append(invocations,
                             [force |-> inv.force, dry_run |-> inv.dry_run,
                              recorded_before |-> inv.recorded_before,
                              recorded_after |-> script_name \in log,
                              ran |-> inv.ran, committed |-> inv.committed,
                              failed |-> inv.failed])
    /\ invocation' = [pc |-> "idle"]

\* the script is started; fill_empty_columns has no --force option
Invoke ==
    /\ invocation.pc = "idle"
    /\ Len(invocations) < MaxInvocations
    /\ \E force, dry_run \in BOOLEAN :
          /\ script_name \in ReturnsOnTrue => ~force
          /\ invocation' = [pc |-> "check", force |-> force, dry_run |-> dry_run,
                            recorded_before |-> script_name \in script_executions,
                            ran |-> FALSE, committed |-> FALSE, failed |-> FALSE]
    /\ UNCHANGED <<script_name, script_executions, invocations, rest_gvars>>

\* "if not dry_run": the guard at the head of main
Guard ==
    /\ invocation.pc = "check"
    /\ IF invocation.dry_run
       THEN /\ invocation' = [invocation EXCEPT !.pc = "work"]
            /\ UNCHANGED <<script_executions, invocations>>
       ELSE LET c == check_and_log_execution(script_executions, script_name,
                                             invocation.force)
                goes_on == IF script_name \in ReturnsOnTrue
                           THEN ~c.returns ELSE c.returns
            IN  /\ script_executions' = c.log
                /\ IF goes_on
                   THEN /\ invocation' = [invocation EXCEPT !.pc = "work"]
                        /\ UNCHANGED invocations
                   ELSE Ended(invocation, c.log)
    /\ UNCHANGED <<script_name, rest_gvars>>

\* the work of the script (which may find nothing to do), committed unless
\* dry_run; fill_empty_columns then comes to the call at the foot of its main
Work ==
    /\ invocation.pc = "work"
    /\ LET inv == [invocation EXCEPT !.ran = TRUE, !.committed = ~invocation.dry_run]
       IN  IF script_name \in ReturnsOnTrue /\ ~invocation.dry_run
           THEN /\ invocation' = [inv EXCEPT !.pc = "log"]
                /\ UNCHANGED invocations
           ELSE Ended(inv, script_executions)
    /\ UNCHANGED <<script_name, script_executions, rest_gvars>>

\* the work raises: what it wrote is rolled back and the script ends
WorkFails ==
    /\ invocation.pc = "work"
    /\ Ended([invocation EXCEPT !.ran = TRUE, !.failed = TRUE], script_executions)
    /\ UNCHANGED <<script_name, script_executions, rest_gvars>>

\* "check_and_log_execution(conn, SCRIPT_NAME, log_execution=True)": the
\* function has no such parameter, the call raises TypeError
LogAtTheEnd ==
    /\ invocation.pc = "log"
    /\ Ended([invocation EXCEPT !.failed = TRUE], script_executions)
    /\ UNCHANGED <<script_name, script_executions, rest_gvars>>

NextGuard == Invoke \/ Guard \/ Work \/ WorkFails \/ LogAtTheEnd

SpecGuard == InitGuard /\ [][NextGuard]_vars

\* C25: an invocation that is no dry run performs the work exactly when the
\* script is not yet recorded as executed or --force is given: the first
\* invocation runs the work, a repeated one without --force does not.
C25_WorkIffNotRecordedOrForced ==
    \A k \in DOMAIN invocations :
        ~invocations[k].dry_run =>
            (invocations[k].ran <=>
                (~invocations[k].recorded_before \/ invocations[k].force))

\* C26: a script is recorded as executed only by an invocation whose work has
\* committed: after a run that failed and rolled back the log holds no entry
\* the run has added.
C26_RecordedOnlyAfterCommit ==
    \A k \in DOMAIN invocations :
        (~invocations[k].recorded_before /\ invocations[k].recorded_after)
            => (invocations[k].committed /\ ~invocations[k].failed)


-----------------------------------------------------------------------------
(* The dry_run flag of the linking, filling and fixing scripts. A script    *)
(* opens one connection, calls its functions with dry_run, and closes the   *)
(* connection; a function executes its UPDATE statements inside the open    *)
(* transaction and commits "if not dry_run". The table is one foreign-key   *)
(* column: persisted is what is committed, transaction what the connection  *)
(* sees.                                                                    *)

DryRunScripts ==
    {"fix_database_issues", "fill_empty_columns",
     "link_orphaned_performance_records", "complete_quote_linkage"}

NumRows == 2

Rows == 1..NumRows

\* "UPDATE ... SET fk = ... WHERE fk IS NULL AND <match>"
execute_update(T, matches) ==
    [r \in Rows |-> IF T[r] = NULL /\ r \in matches THEN 1 ELSE T[r]]

\* link_orphaned_user_performance executes its UPDATE "if not dry_run"; the
\* other functions execute theirs whatever dry_run is
executes_update(script, dry_run) ==
    script = "link_orphaned_performance_records" => ~dry_run

commits_always(dry_run) == TRUE
\* "if not dry_run: conn.commit()"
commits(dry_run) == ~dry_run

MaxDryRuns == 2

NumFunctions == 2

InitDryRun ==
    /\ OldIdle
    /\ DuplicateJobsIdle /\ ExportIdle /\ GuardIdle /\ EntitiesIdle /\ CascadeIdle /\ ImportIdle
    /\ persisted \in [Rows -> {NULL, 1}]
    /\ transaction = persisted
    /\ script_run = [pc |-> "idle"]
    /\ runs_ended = <<>>

\* conn.close(): what was not committed is gone
Closed(r, failed) ==
    /\ runs_ended' = Append(runs_ended,
                            [dry_run |-> r.dry_run, before |-> r.before,
                             after |-> persisted, touched |-> r.touched,
                             failed |-> failed])
    /\ script_run' = [pc |-> "idle"]
    /\ transaction' = persisted

\* main: the arguments are read and the connection opened
StartScript ==
    /\ script_run.pc = "idle"
    /\ Len(runs_ended) < MaxDryRuns
    /\ \E script \in DryRunScripts, dry_run \in BOOLEAN :
          script_run' = [pc |-> "function", script |-> script, dry_run |-> dry_run,
                  before |-> persisted, called |-> 0, touched |-> FALSE]
    /\ transaction' = persisted
    /\ UNCHANGED <<persisted, runs_ended, rest_tvars>>

\* one function of the script: its statements, then its commit
RunFunction ==
    /\ script_run.pc = "function"
    /\ script_run.called < NumFunctions
    /\ \E matches \in SUBSET Rows :
          LET T == IF executes_update(script_run.script, script_run.dry_run)
                   THEN execute_update(transaction, matches)
                   ELSE transaction
          IN  /\ transaction' = T
              /\ persisted' = IF commits(script_run.dry_run) THEN T ELSE persisted
              /\ script_run' = [script_run EXCEPT !.called = @ + 1,
                                    !.touched = @ \/ T # persisted]
    /\ UNCHANGED <<runs_ended, rest_tvars>>

\* a statement raises: conn.rollback() in the handler, conn.close() in finally
FunctionRaises ==
    /\ script_run.pc = "function"
    /\ script_run.called < NumFunctions
    /\ Closed(script_run, TRUE)
    /\ UNCHANGED <<persisted, rest_tvars>>

\* main returns: conn.close() in finally
EndScript ==
    /\ script_run.pc = "function"
    /\ script_run.called = NumFunctions
    /\ Closed(script_run, FALSE)
    /\ UNCHANGED <<persisted, rest_tvars>>

NextDryRun == StartScript \/ RunFunction \/ FunctionRaises \/ EndScript

SpecDryRun == InitDryRun /\ [][NextDryRun]_vars

\* C24: a dry-run invocation persists nothing: while it runs and after it has
\* ended, normally or with an error, the table holds the values it held when
\* the invocation began, whatever was updated inside the open transaction.
C24_DryRunPersistsNothing ==
    /\ (script_run.pc # "idle" /\ script_run.dry_run) => persisted = script_run.before
    /\ \A k \in DOMAIN runs_ended :
          runs_ended[k].dry_run =>
              /\ runs_ended[k].after = runs_ended[k].before
              /\ (k = Len(runs_ended) /\ script_run.pc = "idle")
                    => (persisted = runs_ended[k].before /\ transaction = persisted)

\* a dry run that updated rows inside its transaction has ended with an error
C24_Witness ==
    \E k \in DOMAIN runs_ended :
        /\ runs_ended[k].dry_run
        /\ runs_ended[k].touched
        /\ runs_ended[k].failed


-----------------------------------------------------------------------------
(* The functions that delete entity rows: merge_sales_person_variations,    *)
(* delete_salespersons (cleanup_salespersons_from_csv.py) and               *)
(* remove_test_branches_and_customers (fix_database_issues.py). records     *)
(* stands for the rows of jobs, booked_opportunities, leads and the         *)
(* performance tables: each holds a sales_person_id, a customer_id and a    *)
(* branch_id. What a DELETE does to the rows that reference the deleted row *)
(* is the foreign key's ON DELETE action, which the scripts leave to the    *)
(* schema ("Foreign keys should cascade or set to NULL").                   *)

NumRecords == 2

EntityIds == {1, 2}

\* the branches whose name is LIKE '%test%' ...
IsTestBranch(b) == b = 1

OnDelete == {"CASCADE", "SET NULL", "RESTRICT"}

Referencing(R, col, ids) == {r \in R : r[col] \in ids}

repoint_none(R, canonical_id, dup_id) == R
\* "UPDATE <table> SET sales_person_id = canonical_id WHERE sales_person_id = dup_id"
repoint(R, canonical_id, dup_id) ==
    {IF r.sales_person_id = dup_id
     THEN [r EXCEPT !.sales_person_id = canonical_id] ELSE r : r \in R}

\* the rows after "DELETE FROM <entity table> WHERE id IN ids"
after_delete(R, col, ids, on_delete) ==
    IF on_delete = "CASCADE"
    THEN R \ Referencing(R, col, ids)
    ELSE {IF r[col] \in ids THEN [r EXCEPT ![col] = NULL] ELSE r : r \in R}

\* the statement raises: the foreign key forbids the delete
refused(R, col, ids, on_delete) ==
    on_delete = "RESTRICT" /\ Referencing(R, col, ids) # {}

\* one entry of deletes for each row the statement deletes
deleted_by(by, kind, col, ids, R) ==
    {[by |-> by, kind |-> kind, id |-> i,
      referenced |-> Referencing(R, col, {i}) # {}] : i \in ids}

\* customers "only associated with test branches"
test_customer_ids(C, R) ==
    {c \in C :
        /\ \E r \in R : r.customer_id = c /\ IsTestBranch(r.branch_id)
        /\ ~ \E r \in R : /\ r.customer_id = c
                          /\ r.branch_id # NULL
                          /\ ~IsTestBranch(r.branch_id)}

RecordFields ==
    [sales_person_id : {NULL} \cup EntityIds, customer_id : {NULL, 1},
     branch_id : {NULL} \cup EntityIds]

\* the tables that NumRecords rows can make
RecordTables ==
    {{[id |-> i, sales_person_id |-> f[i].sales_person_id,
       customer_id |-> f[i].customer_id, branch_id |-> f[i].branch_id]
         : i \in 1..NumRecords} : f \in [1..NumRecords -> RecordFields]}

InitEntities ==
    /\ OldIdle
    /\ DuplicateJobsIdle /\ ExportIdle /\ GuardIdle /\ DryRunIdle /\ CascadeIdle /\ ImportIdle
    /\ entities = [sales_persons |-> EntityIds, customers |-> {1},
                   branches |-> EntityIds]
    /\ records \in RecordTables
    /\ deletes = {}

\* merge_sales_person_variations: the rows of the duplicate are given to the
\* canonical record, then the duplicate is deleted
MergeSalesPersonVariations ==
    /\ \E canonical_id \in entities.sales_persons,
          dup_id \in entities.sales_persons :
          /\ canonical_id # dup_id
          /\ LET R == repoint(records, canonical_id, dup_id)
             IN  \E on_delete \in OnDelete :
                    IF refused(R, "sales_person_id", {dup_id}, on_delete)
                    THEN UNCHANGED <<entities, records, deletes>>
                    ELSE /\ records' = after_delete(R, "sales_person_id",
                                                    {dup_id}, on_delete)
                         /\ entities' = [entities EXCEPT
                                           !.sales_persons = @ \ {dup_id}]
                         /\ deletes' = deletes \cup
                               deleted_by("merge_sales_person_variations",
                                          "sales_person", "sales_person_id",
                                          {dup_id}, R)
    /\ UNCHANGED rest_nvars

\* delete_salespersons(conn, salesperson_ids, dry_run=False)
DeleteSalespersons ==
    /\ \E ids \in SUBSET entities.sales_persons, on_delete \in OnDelete :
          /\ ids # {}
          /\ IF refused(records, "sales_person_id", ids, on_delete)
             THEN UNCHANGED <<entities, records, deletes>>
             ELSE /\ records' = after_delete(records, "sales_person_id", ids,
                                             on_delete)
                  /\ entities' = [entities EXCEPT !.sales_persons = @ \ ids]
                  /\ deletes' = deletes \cup
                        deleted_by("delete_salespersons", "sales_person",
                                   "sales_person_id", ids, records)
    /\ UNCHANGED rest_nvars

\* remove_test_branches_and_customers(conn, dry_run=False): the customers of
\* the test branches are deleted, then the test branches
RemoveTestBranchesAndCustomers ==
    /\ LET branch_ids == {b \in entities.branches : IsTestBranch(b)}
           cust_ids == test_customer_ids(entities.customers, records)
       IN  /\ branch_ids # {}
           /\ \E on_delete \in OnDelete :
                 LET R == after_delete(records, "customer_id", cust_ids, on_delete)
                 IN  IF \/ refused(records, "customer_id", cust_ids, on_delete)
                        \/ refused(R, "branch_id", branch_ids, on_delete)
                     THEN UNCHANGED <<entities, records, deletes>>
                     ELSE /\ records' = after_delete(R, "branch_id", branch_ids,
                                                     on_delete)
                          /\ entities' = [entities EXCEPT
                                            !.customers = @ \ cust_ids,
                                            !.branches = @ \ branch_ids]
                          /\ deletes' = deletes
                                \cup deleted_by("remove_test_branches_and_customers",
                                                "customer", "customer_id",
                                                cust_ids, records)
                                \cup deleted_by("remove_test_branches_and_customers",
                                                "branch", "branch_id",
                                                branch_ids, R)
    /\ UNCHANGED rest_nvars

NextEntities ==
    MergeSalesPersonVariations \/ DeleteSalespersons \/ RemoveTestBranchesAndCustomers

SpecEntities == InitEntities /\ [][NextEntities]_vars

\* C23 as stated: no entity row is deleted while a job, booked opportunity,
\* lead or performance row still holds its id in the foreign key.
C23_NeverDeletedWhileReferenced ==
    \A d \in deletes : ~d.referenced

\* C23 as amended: merge_sales_person_variations deletes a salesperson only
\* when no row references it, whereas every customer deleted by
\* remove_test_branches_and_customers is referenced when it is deleted.
C23_MergeDeletesUnreferenced ==
    \A d \in deletes :
        /\ d.by = "merge_sales_person_variations" => ~d.referenced
        /\ (d.by = "remove_test_branches_and_customers" /\ d.kind = "customer")
              => d.referenced

\* a merge has deleted a salesperson whose rows it had given to the canonical
\* record, and a customer of a test branch has been deleted
C23_Witness ==
    /\ \E d \in deletes : d.by = "merge_sales_person_variations"
    /\ \E d \in deletes : d.kind = "customer"
    /\ \E r \in records : r.sales_person_id # NULL


-----------------------------------------------------------------------------
(* cleanup/whitelist_branches.py: get_associated_records and                *)
(* cascade_delete_branches, on the tables of the entity harness. records    *)
(* stands for the jobs and booked opportunities (and leads) of the          *)
(* branches.                                                                *)

\* the CTE branch_customers
branch_customers(R, branch_ids) ==
    {r.customer_id : r \in {x \in R : x.branch_id \in branch_ids
                                        /\ x.customer_id # NULL}}

\* the CTE other_customers
other_customers(R, branch_ids) ==
    {r.customer_id : r \in {x \in R : /\ x.branch_id # NULL
                                       /\ x.branch_id \notin branch_ids
                                       /\ x.customer_id # NULL}}

\* "Customers ONLY associated with these branches"
customers_only_of(R, branch_ids) ==
    branch_customers(R, branch_ids) \ other_customers(R, branch_ids)

\* get_associated_records: the rows and the customers it counts
get_associated_records(R, branch_ids) ==
    [records |-> Referencing(R, "branch_id", branch_ids),
     customers |-> customers_only_of(R, branch_ids)]

InitCascade ==
    /\ OldIdle
    /\ DuplicateJobsIdle /\ ExportIdle /\ GuardIdle /\ DryRunIdle /\ ImportIdle
    /\ entities = [sales_persons |-> EntityIds, customers |-> {1},
                   branches |-> EntityIds]
    /\ records \in RecordTables
    /\ deletes = {}
    /\ cascade = [state |-> "none"]

\* main with --execute: the counts are taken, then cascade_delete_branches
\* deletes in five steps and commits
CascadeDeleteBranches ==
    /\ cascade.state = "none"
    /\ \E branch_ids \in SUBSET entities.branches, on_delete \in OnDelete :
          /\ branch_ids # {}
          /\ LET counted == get_associated_records(records, branch_ids)
                 \* steps 1 to 3
                 R3 == records \ Referencing(records, "branch_id", branch_ids)
                 \* step 4, on the rows that steps 1 to 3 have left
                 cust_ids == entities.customers
                                \cap customers_only_of(R3, branch_ids)
             IN  IF refused(R3, "customer_id", cust_ids, on_delete)
                 THEN /\ cascade' = [state |-> "failed"]
                      /\ UNCHANGED <<entities, records, deletes>>
                 ELSE /\ records' = after_delete(R3, "customer_id", cust_ids,
                                                 on_delete)
                      /\ entities' = [entities EXCEPT
                                        !.customers = @ \ cust_ids,
                                        !.branches = @ \ branch_ids]
                      /\ deletes' = deletes
                            \cup deleted_by("cascade_delete_branches", "customer",
                                            "customer_id", cust_ids, R3)
                            \cup deleted_by("cascade_delete_branches", "branch",
                                            "branch_id", branch_ids, R3)
                      /\ cascade' = [state |-> "done", branch_ids |-> branch_ids,
                                     counted |-> counted,
                                     records_deleted |-> records \ R3,
                                     customers_deleted |-> cust_ids]
    /\ UNCHANGED <<ovars, jvars, evars, gvars, tvars, ivars>>

\* main without --execute: "[DRY RUN] Would delete ...", nothing is deleted
CascadeDryRun ==
    /\ cascade.state = "none"
    /\ \E branch_ids \in SUBSET entities.branches :
          /\ branch_ids # {}
          /\ cascade' = [state |-> "dry_run", branch_ids |-> branch_ids,
                         counted |-> get_associated_records(records, branch_ids),
                         records_deleted |-> {}, customers_deleted |-> {}]
    /\ UNCHANGED rest_bvars

NextCascade == CascadeDeleteBranches \/ CascadeDryRun

SpecCascade == InitCascade /\ [][NextCascade]_vars

\* C29: cascade_delete_branches deletes exactly the customers that
\* get_associated_records counted just before it (those all of whose jobs and
\* booked opportunities belong to the deleted branches), together with the
\* rows of those branches.
C29_DeletesTheCustomersCounted ==
    cascade.state = "done" =>
        /\ cascade.customers_deleted = cascade.counted.customers
        /\ cascade.records_deleted = cascade.counted.records


-----------------------------------------------------------------------------
(* import/import_performance_data.py: import_sales_performance with         *)
(* dry_run=False, and create_or_update_salesperson which it calls for every *)
(* row on the same connection. tables.persisted is what is committed,       *)
(* tables.txn what the connection sees; a table of sales_performance gives  *)
(* for each name "none", "old" (a row from before the import) or "new" (a   *)
(* row of this import).                                                     *)

CsvNames == {"a", "b"}

NumCsvRows == 2

\* conn.commit()
commit(T) == [T EXCEPT !.persisted = T.txn]

\* conn.rollback()
rollback(T) == [T EXCEPT !.txn = T.persisted]

\* "TRUNCATE TABLE sales_performance CASCADE", inside the transaction
truncate(T) == [T EXCEPT !.txn.perf = [n \in CsvNames |-> "none"]]

\* "INSERT INTO sales_performance ... ON CONFLICT (name) DO UPDATE"
insert_row(T, nm) == [T EXCEPT !.txn.perf[nm] = "new"]

\* create_or_update_salesperson(conn, nm, dry_run=False): a statement in an
\* aborted transaction raises and the handler rolls back; an existing
\* salesperson is returned; a new one is inserted and committed
create_or_update_salesperson(T, nm, aborted) ==
    IF aborted THEN rollback(T)
    ELSE IF nm \in T.txn.sales_persons THEN T
    ELSE commit([T EXCEPT !.txn.sales_persons = @ \cup {nm}])

InitImport ==
    /\ OldIdle
    /\ DuplicateJobsIdle /\ ExportIdle /\ GuardIdle /\ DryRunIdle /\ EntitiesIdle /\ CascadeIdle
    /\ csv \in [1..NumCsvRows -> CsvNames]
    /\ \E perf \in [CsvNames -> {"none", "old"}], sps \in SUBSET CsvNames :
          tables = [persisted |-> [perf |-> perf, sales_persons |-> sps],
                    txn |-> [perf |-> perf, sales_persons |-> sps]]
    /\ importer = [pc |-> "idle"]

\* the CSV is read and the table cleared
ClearTable ==
    /\ importer.pc = "idle"
    /\ tables' = truncate(tables)
    /\ importer' = [pc |-> "rows", idx |-> 1, aborted |-> FALSE,
                    before |-> tables.persisted.perf]
    /\ UNCHANGED <<csv, rest_ivars>>

\* one row of the loop is imported
ImportRow ==
    /\ importer.pc = "rows"
    /\ importer.idx <= Len(csv)
    /\ tables' = insert_row(create_or_update_salesperson(tables, csv[importer.idx],
                                                         importer.aborted),
                            csv[importer.idx])
    /\ importer' = [importer EXCEPT !.idx = @ + 1, !.aborted = FALSE]
    /\ UNCHANGED <<csv, rest_ivars>>

\* one row raises and is skipped ("except Exception ... continue"): its name
\* is missing, or a value cannot be converted, or the INSERT is refused and
\* leaves the transaction aborted
SkipRow ==
    /\ importer.pc = "rows"
    /\ importer.idx <= Len(csv)
    /\ \E why \in {"name", "value", "statement"} :
          /\ tables' = IF why = "name" THEN tables
                       ELSE create_or_update_salesperson(tables, csv[importer.idx],
                                                         importer.aborted)
          /\ importer' = [importer EXCEPT
                            !.idx = @ + 1,
                            !.aborted = IF why = "name" THEN @
                                        ELSE why = "statement"]
    /\ UNCHANGED <<csv, rest_ivars>>

\* after the loop: conn.commit(), which ends an aborted transaction by
\* rolling it back
CommitImport ==
    /\ importer.pc = "rows"
    /\ importer.idx > Len(csv)
    /\ tables' = IF importer.aborted THEN rollback(tables) ELSE commit(tables)
    /\ importer' = [importer EXCEPT !.pc = "done"]
    /\ UNCHANGED <<csv, rest_ivars>>

\* the connection is lost part-way: nothing more is committed, the import
\* ends in the handler ("conn.rollback() ... raise")
ImportFails ==
    /\ importer.pc = "rows"
    /\ tables' = rollback(tables)
    /\ importer' = [importer EXCEPT !.pc = "failed"]
    /\ UNCHANGED <<csv, rest_ivars>>

NextImport == ClearTable \/ ImportRow \/ SkipRow \/ CommitImport \/ ImportFails

SpecImport == InitImport /\ [][NextImport]_vars

\* C30: an import that fails part-way after clearing the table leaves
\* sales_performance as it was before the import, and nothing of the import
\* (the truncation, a partial set of rows) is committed before its end.
C30_FailedImportRestoresTable ==
    /\ importer.pc \in {"rows", "failed"}
          => tables.persisted.perf = importer.before

====
